---- MODULE Spec2Model ----
(***************************************************************************)
(* The local record store of research_pilot: three SQLite-backed stores    *)
(* (NIH grants, job postings, papers) with insert-if-absent saving, batch  *)
(* saving, tag/notes/status edits and deletes.                             *)
(*                                                                         *)
(*   grants : src/assistant/tools/storage/grants.py                        *)
(*   jobs   : src/trion/tools/storage/career.py                            *)
(*   papers : src/trion/tools/storage/articles.py                          *)
(*                                                                         *)
(* Each store is its own database file holding one table, and no function  *)
(* of one module touches another module's table, so a behaviour follows    *)
(* one store: `kind` is fixed by Init and the other two tables stay empty. *)
(*                                                                         *)
(* Text columns are TLA+ strings, except the tags column and the tags      *)
(* themselves, which are sequences of one-character strings so that        *)
(* ','.join and str.split(',') can be modelled character by character.     *)
(***************************************************************************)
EXTENDS Integers, Sequences, FiniteSets, TLC

VARIABLES
    kind,      \* the store this behaviour follows: "grants", "jobs" or "papers"
    dbState,   \* "missing": no database file; "notable": file without the table; "ready"
    grants,    \* rows of table grants
    jobs,      \* rows of table jobs
    papers,    \* rows of table papers
    seq,       \* sqlite_sequence of the table (AUTOINCREMENT): largest id ever given
    now,       \* the wall clock read by datetime.now()
    last,      \* the last call: its arguments and what it returned
    procs      \* the calls in progress, one per process, each at a statement

vars == <<kind, dbState, grants, jobs, papers, seq, now, last, procs>>

(***************************************************************************)
(* Bounds of the model.                                                    *)
(***************************************************************************)
MaxInserts == 2     \* rows ever inserted into a table in one behaviour
MaxBatch == 2       \* records in one batch
MaxClock == 1       \* ticks of the wall clock
MaxFaults == 1      \* saves of one batch that meet a storage fault

(***************************************************************************)
(* Values.                                                                 *)
(***************************************************************************)
NULL == "NULL"                       \* SQL NULL / Python None
NAN == "NaN"                         \* the float nan pandas puts in an empty cell
ABSENT == "ABSENT"                   \* the key is not in the record at all
NA == "N/A"                          \* the 'N/A' placeholder of the research tools

None == [some |-> FALSE, val |-> <<>>]      \* an optional list that is None
Some(l) == [some |-> TRUE, val |-> l]       \* an optional list that is given
Truthy(o) == o.some /\ o.val # <<>>         \* Python: `if tags`

ToSet(l) == {l[i] : i \in DOMAIN l}

\* data.get(name, default) on the record a save is given
Field(rec, name, default) == IF name \in DOMAIN rec THEN rec[name] ELSE default

(***************************************************************************)
(* Strings as sequences of characters.                                     *)
(***************************************************************************)
Ord(c) == CASE c = "," -> 44 [] c = "a" -> 97 [] c = "b" -> 98 [] c = "c" -> 99

RECURSIVE StrLess(_, _)
StrLess(s, t) ==
    IF s = <<>> THEN t # <<>>
    ELSE IF t = <<>> THEN FALSE
    ELSE IF Head(s) = Head(t) THEN StrLess(Tail(s), Tail(t))
    ELSE Ord(Head(s)) < Ord(Head(t))

\* Mutant: the tokens are joined without the separator.
RECURSIVE Join_NoSeparator(_)
Join_NoSeparator(l) ==
    IF l = <<>> THEN <<>> ELSE l[1] \o Join_NoSeparator(Tail(l))

RECURSIVE Join(_)
Join(l) ==
    IF l = <<>> THEN <<>>
    ELSE IF Len(l) = 1 THEN l[1]
    ELSE l[1] \o <<",">> \o Join(Tail(l))

RECURSIVE Split(_)
Split(s) ==
    IF \A i \in DOMAIN s : s[i] # "," THEN <<s>>
    ELSE LET i == CHOOSE j \in DOMAIN s :
                      s[j] = "," /\ \A k \in 1..(j - 1) : s[k] # ","
         IN  <<SubSeq(s, 1, i - 1)>> \o Split(SubSeq(s, i + 1, Len(s)))

RECURSIVE Sorted(_)
Sorted(S) ==
    IF S = {} THEN <<>>
    ELSE LET m == CHOOSE x \in S : \A y \in S \ {x} : StrLess(x, y)
         IN  <<m>> \o Sorted(S \ {m})

\* set(current_tags.split(',')) if current_tags else set(); discard('')
ParseTags(current) ==
    IF current = <<>> THEN {} ELSE ToSet(Split(current)) \ {<<>>}

\* ",".join(tags) if tags else ""
TagsStr(tags) == IF Truthy(tags) THEN Join(tags.val) ELSE <<>>

(***************************************************************************)
(* Results of a call.                                                      *)
(***************************************************************************)
RetTrue == "True"          \* the function returned True
RetFalse == "False"        \* the function returned False
Raised == "Raised"         \* the function raised an exception to its caller

Returned == "None"         \* the function returned normally, without a value

\* Where the database fails during a call (I/O error, lock timeout).
Faults == {"none", "init", "write"}

(***************************************************************************)
(* init_db of the three modules.  The database file is "missing", present  *)
(* without the kind's table ("notable": an empty file, or a file holding   *)
(* other tables), or "ready" (the table exists).                           *)
(***************************************************************************)

\* grants.init_db: connect, CREATE TABLE IF NOT EXISTS, commit; an exception is
\* logged and raised again.
grants_init_db(db, fault) ==
    IF fault THEN [out |-> Raised, db |-> db] ELSE [out |-> Returned, db |-> "ready"]

\* career.init_db: the same.
jobs_init_db(db, fault) ==
    IF fault THEN [out |-> Raised, db |-> db] ELSE [out |-> Returned, db |-> "ready"]

\* articles.init_db: returns at once when the file exists and verbose is not
\* set; otherwise connect, CREATE TABLE IF NOT EXISTS, commit, with no handler.
papers_init_db(db, verbose, fault) ==
    IF db # "missing" /\ ~verbose THEN [out |-> Returned, db |-> db]
    ELSE IF fault THEN [out |-> Raised, db |-> db]
    ELSE [out |-> Returned, db |-> "ready"]

(***************************************************************************)
(* Grants  (src/assistant/tools/storage/grants.py)                         *)
(*                                                                         *)
(* A grants row keeps the columns the operations read or write; the other  *)
(* nullable columns are copied from the record like title and are left out.*)
(***************************************************************************)

\* Mutant: the grants table without the UNIQUE constraint on project_num.
grants_IntegrityError_NotUnique(tbl, rec) ==
    \/ rec.project_num = NULL
    \/ rec.title = NULL

\* CREATE TABLE grants: project_num TEXT UNIQUE NOT NULL, title TEXT NOT NULL.
\* A None or NaN cell is bound as SQL NULL.
grants_IntegrityError(tbl, rec) ==
    \/ rec.project_num = NULL
    \/ rec.title = NULL
    \/ \E r \in tbl : r.project_num = rec.project_num

\* INSERT INTO grants (...) VALUES (...): the row the insert writes.
grants_row(s, rec, tags, notes, ts) ==
    [id |-> s + 1, project_num |-> rec.project_num, title |-> rec.title,
     pi_names |-> Field(rec, "pi_names", NULL),
     organization |-> Field(rec, "organization", NULL),
     abstract |-> Field(rec, "abstract", NULL),
     fiscal_year |-> Field(rec, "fiscal_year", NULL),
     award_amount |-> Field(rec, "award_amount", NULL),
     tags |-> TagsStr(tags), notes |-> notes, added |-> ts]

\* Mutant: INSERT OR REPLACE, the stored row is overwritten by the new record.
save_grant_result_Replace(st, rec, tags, notes, ts, fault) ==
    IF fault = "init"
    THEN [out |-> Raised, tbl |-> st.tbl, seq |-> st.seq, db |-> st.db]
    ELSE IF fault = "write" \/ rec.project_num = NULL \/ rec.title = NULL
    THEN [out |-> RetFalse, tbl |-> st.tbl, seq |-> st.seq, db |-> "ready"]
    ELSE [out |-> RetTrue,
          tbl |-> {r \in st.tbl : r.project_num # rec.project_num}
                  \cup {grants_row(st.seq, rec, tags, notes, ts)},
          seq |-> st.seq + 1, db |-> "ready"]

\* save_grant: the returned value and the store afterwards.
save_grant_result(st, rec, tags, notes, ts, fault) ==
    IF grants_init_db(st.db, fault = "init").out = Raised
    THEN [out |-> Raised, tbl |-> st.tbl, seq |-> st.seq, db |-> st.db]
    ELSE IF fault = "write" \/ grants_IntegrityError(st.tbl, rec)
    THEN [out |-> RetFalse, tbl |-> st.tbl, seq |-> st.seq, db |-> "ready"]
    ELSE [out |-> RetTrue,
          tbl |-> st.tbl \cup {grants_row(st.seq, rec, tags, notes, ts)},
          seq |-> st.seq + 1, db |-> "ready"]

(***************************************************************************)
(* Jobs  (src/trion/tools/storage/career.py)                               *)
(***************************************************************************)

\* CREATE TABLE jobs: title TEXT NOT NULL, company TEXT NOT NULL, url TEXT UNIQUE.
\* A UNIQUE column accepts any number of NULLs.
jobs_IntegrityError(tbl, rec) ==
    \/ rec.title = NULL
    \/ rec.company = NULL
    \/ rec.url # NULL /\ \E r \in tbl : r.url = rec.url

\* INSERT INTO jobs (...) VALUES (...): the row the insert writes.
jobs_row(s, rec, tags, notes, status, ts) ==
    [id |-> s + 1, url |-> rec.url, title |-> rec.title, company |-> rec.company,
     location |-> Field(rec, "location", NULL),
     description |-> Field(rec, "description", NULL),
     job_type |-> Field(rec, "job_type", NULL),
     salary_min |-> Field(rec, "salary_min", NULL),
     salary_max |-> Field(rec, "salary_max", NULL),
     is_remote |-> Field(rec, "is_remote", "False"),
     tags |-> TagsStr(tags), notes |-> notes, status |-> status, added |-> ts]

\* save_job: the returned value and the store afterwards.
save_job_result(st, rec, tags, notes, status, ts, fault) ==
    IF jobs_init_db(st.db, fault = "init").out = Raised
    THEN [out |-> Raised, tbl |-> st.tbl, seq |-> st.seq, db |-> st.db]
    ELSE IF fault = "write" \/ jobs_IntegrityError(st.tbl, rec)
    THEN [out |-> RetFalse, tbl |-> st.tbl, seq |-> st.seq, db |-> "ready"]
    ELSE [out |-> RetTrue,
          tbl |-> st.tbl \cup {jobs_row(st.seq, rec, tags, notes, status, ts)},
          seq |-> st.seq + 1, db |-> "ready"]

(***************************************************************************)
(* Papers  (src/trion/tools/storage/articles.py)                           *)
(***************************************************************************)

\* Python str(): None gives 'None', a float nan gives 'nan'.
Str(v) == IF v = NULL THEN "None" ELSE IF v = NAN THEN "nan" ELSE v

\* dict.get(key, default)
Get(v, default) == IF v = ABSENT THEN default ELSE v

\* pmid = paper_dict.get('pmid', 'N/A'); pmid = None if pmid == 'N/A' else str(pmid)
PaperId(v) == IF Get(v, NA) = NA THEN NULL ELSE Str(Get(v, NA))

\* Python `not x` of an identifier that is None or a string
Falsy(x) == x = NULL \/ x = ""

\* A cell bound to a TEXT column: None and NaN are bound as SQL NULL.
Bind(v) == IF v = NAN THEN NULL ELSE v

\* CREATE TABLE papers: pmid TEXT UNIQUE, arxiv_id TEXT UNIQUE, title TEXT NOT NULL,
\* CHECK (pmid IS NOT NULL OR arxiv_id IS NOT NULL).
papers_IntegrityError(tbl, row) ==
    \/ row.title = NULL
    \/ row.pmid = NULL /\ row.arxiv_id = NULL
    \/ row.pmid # NULL /\ \E r \in tbl : r.pmid = row.pmid
    \/ row.arxiv_id # NULL /\ \E r \in tbl : r.arxiv_id = row.arxiv_id

\* INSERT INTO papers (...) VALUES (...): the row the insert writes.
papers_row(s, rec, tags, notes, ts) ==
    [id |-> s + 1, pmid |-> PaperId(rec.pmid), arxiv_id |-> PaperId(rec.arxiv_id),
     title |-> Bind(Get(rec.title, NA)),
     authors |-> Bind(Field(rec, "authors", NA)),
     abstract |-> Bind(Field(rec, "abstract", NA)),
     year |-> Bind(Field(rec, "year", NA)),
     source |-> Bind(Field(rec, "source", NA)),
     tags |-> TagsStr(tags), notes |-> notes, added |-> ts]

\* save_paper: the returned value and the store afterwards.
save_paper_result(st, rec, tags, notes, ts, fault) ==
    LET init == papers_init_db(st.db, FALSE, fault = "init")
        same == [tbl |-> st.tbl, seq |-> st.seq, db |-> init.db]
    IN  IF init.out = Raised THEN [out |-> Raised] @@ same
        ELSE IF Falsy(PaperId(rec.pmid)) /\ Falsy(PaperId(rec.arxiv_id))
        THEN [out |-> RetFalse] @@ same
        ELSE IF fault = "write" \/ init.db # "ready"
        THEN [out |-> Raised] @@ same
        ELSE IF papers_IntegrityError(st.tbl, papers_row(st.seq, rec, tags, notes, ts))
        THEN [out |-> RetFalse] @@ same
        ELSE [out |-> RetTrue,
              tbl |-> st.tbl \cup {papers_row(st.seq, rec, tags, notes, ts)},
              seq |-> st.seq + 1, db |-> init.db]

(***************************************************************************)
(* Batch saves: one save per record, each its own commit; the loop counts  *)
(* True as saved, False as skipped and an exception as an error.           *)
(***************************************************************************)
NoStats == [saved |-> 0, skipped |-> 0, errors |-> 0]

\* The single save a batch of kind k calls for one row (notes is not passed).
SaveOne(k, st, rec, tags, status, ts, fault) ==
    CASE k = "grants" -> save_grant_result(st, rec, tags, NULL, ts, fault)
      [] k = "jobs"   -> save_job_result(st, rec, tags, NULL, status, ts, fault)
      [] k = "papers" -> save_paper_result(st, rec, tags, NULL, ts, fault)

\* One pass of the loop body: the counter the outcome of a save increments.
Count(stats, out) ==
    CASE out = RetTrue  -> [stats EXCEPT !.saved = @ + 1]
      [] out = RetFalse -> [stats EXCEPT !.skipped = @ + 1]
      [] out = Raised   -> [stats EXCEPT !.errors = @ + 1]

\* Mutant: the loop stops at the first record that is not saved.
RECURSIVE BatchLoop_AbortOnFailure(_, _, _, _, _, _, _, _)
BatchLoop_AbortOnFailure(k, st, stats, recs, tags, status, ts, faults) ==
    IF recs = <<>> THEN [st |-> st, stats |-> stats]
    ELSE LET r == SaveOne(k, st, Head(recs), tags, status, ts, Head(faults))
         IN  IF r.out # RetTrue
             THEN [st |-> [tbl |-> r.tbl, seq |-> r.seq, db |-> r.db],
                   stats |-> Count(stats, r.out)]
             ELSE BatchLoop_AbortOnFailure(k, [tbl |-> r.tbl, seq |-> r.seq, db |-> r.db],
                       Count(stats, r.out), Tail(recs), tags, status, ts, Tail(faults))

RECURSIVE BatchLoop(_, _, _, _, _, _, _, _)
BatchLoop(k, st, stats, recs, tags, status, ts, faults) ==
    IF recs = <<>> THEN [st |-> st, stats |-> stats]
    ELSE LET r == SaveOne(k, st, Head(recs), tags, status, ts, Head(faults))
         IN  BatchLoop(k, [tbl |-> r.tbl, seq |-> r.seq, db |-> r.db],
                       Count(stats, r.out), Tail(recs), tags, status, ts, Tail(faults))

\* save_grants_batch / save_jobs_batch / save_papers_batch
save_grants_batch_result(st, recs, tags, ts, faults) ==
    BatchLoop("grants", st, NoStats, recs, tags, "new", ts, faults)

save_jobs_batch_result(st, recs, tags, status, ts, faults) ==
    BatchLoop("jobs", st, NoStats, recs, tags, status, ts, faults)

save_papers_batch_result(st, recs, tags, ts, faults) ==
    BatchLoop("papers", st, NoStats, recs, tags, "new", ts, faults)

(***************************************************************************)
(* Tag, notes and status edits.                                            *)
(***************************************************************************)

\* Mutant: the removals are applied before the additions.
AddRemove_RemoveFirst(tagSet, add, remove) ==
    LET removed == IF Truthy(remove) THEN tagSet \ ToSet(remove.val) ELSE tagSet
    IN  IF Truthy(add) THEN removed \cup ToSet(add.val) ELSE removed

\* tag_set.update(add_tags) if add_tags; tag_set.difference_update(remove_tags)
\* if remove_tags: additions first, removals second.
AddRemove(tagSet, add, remove) ==
    LET added == IF Truthy(add) THEN tagSet \cup ToSet(add.val) ELSE tagSet
    IN  IF Truthy(remove) THEN added \ ToSet(remove.val) ELSE added

\* Mutant: add_tags and remove_tags are applied on top of the replace list.
tag_grant_new_tags_Merge(current, tags, add, remove) ==
    IF tags.some THEN Join(Sorted(AddRemove(ToSet(tags.val), add, remove)))
    ELSE IF Truthy(add) \/ Truthy(remove)
    THEN Join(Sorted(AddRemove(ParseTags(current), add, remove)))
    ELSE current

\* tag_grant: the new value of the tags column.
tag_grant_new_tags(current, tags, add, remove) ==
    IF tags.some THEN Join(tags.val)
    ELSE IF Truthy(add) \/ Truthy(remove)
    THEN Join(Sorted(AddRemove(ParseTags(current), add, remove)))
    ELSE current

\* update_job_status: the new value of the tags column.
update_job_new_tags(current, tags, add, remove) ==
    IF tags.some THEN Join(tags.val)
    ELSE IF Truthy(add) \/ Truthy(remove)
    THEN Join(Sorted(AddRemove(ParseTags(current), add, remove)))
    ELSE current

\* tag_paper: the new value of the tags column.
tag_paper_new_tags(current, tags, add, remove) ==
    IF tags.some THEN Join(Sorted(ToSet(tags.val)))
    ELSE Join(Sorted(AddRemove(ParseTags(current), add, remove)))

\* notes if notes is not None else current_notes
NewNotes(current, notes) == IF notes # NULL THEN notes ELSE current

\* Mutant: the UPDATE has no WHERE clause and writes every row.
tag_grant_result_AllRows(db, tbl, project_num, tags, add, remove, notes, fault) ==
    IF db # "ready" \/ fault \/ ~ \E r \in tbl : r.project_num = project_num
    THEN [out |-> RetFalse, tbl |-> tbl]
    ELSE [out |-> RetTrue,
          tbl |-> {[r EXCEPT !.tags = tag_grant_new_tags(r.tags, tags, add, remove),
                             !.notes = NewNotes(r.notes, notes)] : r \in tbl}]

\* tag_grant: the returned value and the table afterwards.
tag_grant_result(db, tbl, project_num, tags, add, remove, notes, fault) ==
    IF db # "ready" \/ fault \/ ~ \E r \in tbl : r.project_num = project_num
    THEN [out |-> RetFalse, tbl |-> tbl]
    ELSE [out |-> RetTrue,
          tbl |-> {IF r.project_num = project_num
                   THEN [r EXCEPT !.tags = tag_grant_new_tags(r.tags, tags, add, remove),
                                  !.notes = NewNotes(r.notes, notes)]
                   ELSE r : r \in tbl}]

\* update_job_status: the rows the WHERE clause of its SELECT and UPDATE matches
\* (job_id 0 stands for None; the id is used when it is given).
JobTarget(tbl, job_id, url) ==
    IF job_id # 0 THEN {r \in tbl : r.id = job_id}
    ELSE {r \in tbl : r.url # NULL /\ r.url = url}

\* update_job_status: the returned value and the table afterwards.
update_job_status_result(db, tbl, job_id, url, status, tags, add, remove, notes, fault) ==
    IF db = "missing" \/ (job_id = 0 /\ Falsy(url)) \/ db # "ready" \/ fault
       \/ JobTarget(tbl, job_id, url) = {}
    THEN [out |-> RetFalse, tbl |-> tbl]
    ELSE [out |-> RetTrue,
          tbl |-> {IF r \in JobTarget(tbl, job_id, url)
                   THEN [r EXCEPT !.status = IF Falsy(status) THEN @ ELSE status,
                                  !.tags = update_job_new_tags(@, tags, add, remove),
                                  !.notes = NewNotes(@, notes)]
                   ELSE r : r \in tbl}]

\* "." in paper_id, for the identifiers of the model
DottedIds == {"2301.1", "2301.2"}
HasDot(id) == id \in DottedIds

\* tag_paper, get_paper_by_id, delete_paper: the column the identifier is looked up in.
IdColumn(paper_id, id_type) ==
    IF id_type = "auto" THEN (IF HasDot(paper_id) THEN "arxiv_id" ELSE "pmid")
    ELSE IF id_type = "arxiv" THEN "arxiv_id"
    ELSE "pmid"

\* SELECT ... FROM papers WHERE {id_type} = ?
PaperTarget(tbl, paper_id, id_type) ==
    {r \in tbl : r[IdColumn(paper_id, id_type)] # NULL
                 /\ r[IdColumn(paper_id, id_type)] = paper_id}

\* tag_paper: the returned value and the table afterwards.
tag_paper_result(db, tbl, paper_id, id_type, tags, add, remove, notes, fault) ==
    IF db = "missing" THEN [out |-> RetFalse, tbl |-> tbl]
    ELSE IF fault \/ db # "ready" THEN [out |-> Raised, tbl |-> tbl]
    ELSE IF PaperTarget(tbl, paper_id, id_type) = {} THEN [out |-> RetFalse, tbl |-> tbl]
    ELSE [out |-> RetTrue,
          tbl |-> {IF r \in PaperTarget(tbl, paper_id, id_type)
                   THEN [r EXCEPT !.tags = tag_paper_new_tags(@, tags, add, remove),
                                  !.notes = NewNotes(@, notes)]
                   ELSE r : r \in tbl}]

(***************************************************************************)
(* Deletes.                                                                *)
(***************************************************************************)

\* delete_grant: the returned value and the table afterwards.
delete_grant_result(db, tbl, project_num, fault) ==
    IF db # "ready" \/ fault \/ ~ \E r \in tbl : r.project_num = project_num
    THEN [out |-> RetFalse, tbl |-> tbl]
    ELSE [out |-> RetTrue, tbl |-> {r \in tbl : r.project_num # project_num}]

\* delete_job: the returned value and the table afterwards.
delete_job_result(db, tbl, job_id, url, fault) ==
    IF db # "ready" \/ (job_id = 0 /\ Falsy(url)) \/ fault
       \/ JobTarget(tbl, job_id, url) = {}
    THEN [out |-> RetFalse, tbl |-> tbl]
    ELSE [out |-> RetTrue, tbl |-> tbl \ JobTarget(tbl, job_id, url)]

\* delete_paper: the returned value and the table afterwards.
delete_paper_result(db, tbl, paper_id, id_type, fault) ==
    IF db = "missing" THEN [out |-> RetFalse, tbl |-> tbl]
    ELSE IF fault \/ db # "ready" THEN [out |-> Raised, tbl |-> tbl]
    ELSE IF PaperTarget(tbl, paper_id, id_type) = {} THEN [out |-> RetFalse, tbl |-> tbl]
    ELSE [out |-> RetTrue, tbl |-> tbl \ PaperTarget(tbl, paper_id, id_type)]

(***************************************************************************)
(* Searches.  A text value is named by a string; Chars gives its           *)
(* characters.  A number stored in a column is named by a string; Num      *)
(* gives its value.                                                        *)
(***************************************************************************)
Chars(v) ==
    CASE v = "ab" -> <<"a", "b">>
      [] v = "Ab" -> <<"A", "b">>
      [] v = "cb" -> <<"c", "b">>
      [] v = "a_" -> <<"a", "_">>
      [] v = NA   -> <<"N", "/", "A">>
      [] v = ""   -> <<>>
      [] OTHER    -> <<v>>

\* SQLite folds the case of ASCII letters in LIKE.
Lower(c) == CASE c = "A" -> "a" [] c = "B" -> "b" [] c = "N" -> "n" [] OTHER -> c

Num(v) ==
    CASE v = "2020" -> 2020 [] v = "2024" -> 2024
      [] v = "100" -> 100 [] v = "500" -> 500
      [] OTHER -> 0

\* text LIKE pattern: % matches any run of characters, _ any one character.
RECURSIVE LikeMatch(_, _)
LikeMatch(pattern, text) ==
    IF pattern = <<>> THEN text = <<>>
    ELSE IF Head(pattern) = "%"
    THEN LikeMatch(Tail(pattern), text)
         \/ (text # <<>> /\ LikeMatch(pattern, Tail(text)))
    ELSE /\ text # <<>>
         /\ (Head(pattern) = "_" \/ Lower(Head(pattern)) = Lower(Head(text)))
         /\ LikeMatch(Tail(pattern), Tail(text))

\* column LIKE '%' + value + '%' on a text column, which may be NULL
ColLike(col, chars) == col # NULL /\ LikeMatch(<<"%">> \o chars \o <<"%">>, Chars(col))

\* tags LIKE '%' + tag + '%'
TagLike(tags, tag) == LikeMatch(<<"%">> \o tag \o <<"%">>, tags)

\* column >= n, column <= n on an INTEGER column, which may be NULL
ColGE(col, n) == col # NULL /\ Num(col) >= n
ColLE(col, n) == col # NULL /\ Num(col) <= n

\* An optional number: None, or a value.
NoNum == [some |-> FALSE, val |-> 0]
SomeNum(n) == [some |-> TRUE, val |-> n]

\* `if fiscal_year_from:` and the like: None and 0 are both skipped.
Given(o) == o.some /\ o.val # 0

\* Mutant: when keywords are given the other clauses are left out of the query.
search_grants_where_KeywordsOnly(r, f) ==
    IF Falsy(f.keywords)
    THEN /\ ~Truthy(f.tags) \/ \E i \in DOMAIN f.tags.val : TagLike(r.tags, f.tags.val[i])
         /\ ~Given(f.fiscal_year_from) \/ ColGE(r.fiscal_year, f.fiscal_year_from.val)
         /\ ~Given(f.fiscal_year_to) \/ ColLE(r.fiscal_year, f.fiscal_year_to.val)
         /\ ~Given(f.award_amount_min) \/ ColGE(r.award_amount, f.award_amount_min.val)
         /\ ~Given(f.award_amount_max) \/ ColLE(r.award_amount, f.award_amount_max.val)
    ELSE \E c \in {"title", "abstract", "pi_names", "organization"} :
            ColLike(r[c], Chars(f.keywords))

\* The WHERE clause search_grants_db builds; a range argument that is None or 0
\* adds no condition, both being skipped by `if fiscal_year_from:`.
search_grants_where(r, f) ==
    /\ Falsy(f.keywords)
       \/ \E c \in {"title", "abstract", "pi_names", "organization"} :
             ColLike(r[c], Chars(f.keywords))
    /\ ~Truthy(f.tags) \/ \E i \in DOMAIN f.tags.val : TagLike(r.tags, f.tags.val[i])
    /\ ~Given(f.fiscal_year_from) \/ ColGE(r.fiscal_year, f.fiscal_year_from.val)
    /\ ~Given(f.fiscal_year_to) \/ ColLE(r.fiscal_year, f.fiscal_year_to.val)
    /\ ~Given(f.award_amount_min) \/ ColGE(r.award_amount, f.award_amount_min.val)
    /\ ~Given(f.award_amount_max) \/ ColLE(r.award_amount, f.award_amount_max.val)

\* search_grants_db: the rows returned; an exception gives an empty DataFrame.
search_grants_db_result(db, tbl, f, fault) ==
    IF db # "ready" \/ fault THEN [out |-> "rows", rows |-> {}]
    ELSE [out |-> "rows", rows |-> {r \in tbl : search_grants_where(r, f)}]

\* The WHERE clause search_jobs_db builds.
search_jobs_where(r, f) ==
    /\ Falsy(f.keywords)
       \/ \E c \in {"title", "description", "company"} : ColLike(r[c], Chars(f.keywords))
    /\ Falsy(f.location) \/ ColLike(r.location, Chars(f.location))
    /\ ~Truthy(f.tags) \/ \E i \in DOMAIN f.tags.val : TagLike(r.tags, f.tags.val[i])
    /\ Falsy(f.job_type) \/ (r.job_type # NULL /\ r.job_type = f.job_type)
    /\ ~f.salary_min.some
       \/ ColGE(r.salary_min, f.salary_min.val) \/ ColGE(r.salary_max, f.salary_min.val)
    /\ f.is_remote = NULL \/ r.is_remote = f.is_remote

\* search_jobs_db: the rows returned; an exception gives an empty DataFrame.
search_jobs_db_result(db, tbl, f, fault) ==
    IF db # "ready" \/ fault THEN [out |-> "rows", rows |-> {}]
    ELSE [out |-> "rows", rows |-> {r \in tbl : search_jobs_where(r, f)}]

\* The WHERE clause search_papers_db builds; CAST(year AS INTEGER) of a text
\* that is no number is 0.
search_papers_where(r, f) ==
    /\ Falsy(f.keywords)
       \/ \E c \in {"title", "abstract", "authors"} : ColLike(r[c], Chars(f.keywords))
    /\ ~Truthy(f.tags) \/ \A i \in DOMAIN f.tags.val : TagLike(r.tags, f.tags.val[i])
    /\ ~Given(f.year_from) \/ ColGE(r.year, f.year_from.val)
    /\ ~Given(f.year_to) \/ ColLE(r.year, f.year_to.val)
    /\ Falsy(f.source) \/ (r.source # NULL /\ r.source = f.source)

\* df[column_order]: the columns of a papers result, which leave out id.
papers_columns(r) == [c \in DOMAIN r \ {"id"} |-> r[c]]

\* search_papers_db: the rows returned; there is no exception handler.
search_papers_db_result(db, tbl, f, fault) ==
    IF db = "missing" THEN [out |-> "rows", rows |-> {}]
    ELSE IF db # "ready" \/ fault THEN [out |-> Raised, rows |-> {}]
    ELSE [out |-> "rows",
          rows |-> {papers_columns(r) : r \in {q \in tbl : search_papers_where(q, f)}}]

\* The sequences that hold every element of S once.
SeqsOf(S) ==
    {q \in [1..Cardinality(S) -> S] : \A i, j \in 1..Cardinality(S) : q[i] = q[j] => i = j}

\* The place of a column value in SQLite's ascending order: NULL first, then
\* numbers, then text.
SortRank(v) ==
    CASE v = NULL -> 0 - 1
      [] v = NA   -> 9999
      [] OTHER    -> Num(v)

\* ORDER BY award_amount DESC: the query names no further sort key, so rows
\* with equal award_amount come in any order.
search_grants_db_order(rows) ==
    {q \in SeqsOf(rows) :
        \A i, j \in DOMAIN q :
            i < j => SortRank(q[i].award_amount) >= SortRank(q[j].award_amount)}

\* ORDER BY added_timestamp DESC
search_jobs_db_order(rows) ==
    {q \in SeqsOf(rows) : \A i, j \in DOMAIN q : i < j => q[i].added >= q[j].added}

\* ORDER BY year DESC, added_timestamp DESC
search_papers_db_order(rows) ==
    {q \in SeqsOf(rows) :
        \A i, j \in DOMAIN q :
            i < j => \/ SortRank(q[i].year) > SortRank(q[j].year)
                     \/ /\ SortRank(q[i].year) = SortRank(q[j].year)
                        /\ q[i].added >= q[j].added}

(***************************************************************************)
(* get_database_stats.                                                     *)
(***************************************************************************)
\* SELECT SUM(award_amount): NULL amounts are skipped.
RECURSIVE SumAmounts(_)
SumAmounts(rows) ==
    IF rows = {} THEN 0
    ELSE LET r == CHOOSE x \in rows : TRUE
         IN  Num(r.award_amount) + SumAmounts(rows \ {r})

\* all_tags.update(tag_str.split(',')) over the rows WHERE tags != ''
RECURSIVE SplitAll(_)
SplitAll(rows) ==
    IF rows = {} THEN {}
    ELSE LET r == CHOOSE x \in rows : TRUE
         IN  (IF r.tags # <<>> THEN ToSet(Split(r.tags)) ELSE {}) \cup SplitAll(rows \ {r})

\* The dictionary the grants and jobs modules return for a missing file and
\* from their exception handler.
ZeroStats == [out |-> "stats", total |-> 0, tags |-> <<>>, funding |-> 0]

grants_get_database_stats(db, tbl, fault) ==
    IF db = "missing" THEN ZeroStats
    ELSE IF db # "ready" \/ fault THEN ZeroStats
    ELSE [out |-> "stats", total |-> Cardinality(tbl),
          tags |-> Sorted(SplitAll(tbl) \ {<<>>}), funding |-> SumAmounts(tbl)]

jobs_get_database_stats(db, tbl, fault) ==
    IF db = "missing" THEN ZeroStats
    ELSE IF db # "ready" \/ fault THEN ZeroStats
    ELSE [out |-> "stats", total |-> Cardinality(tbl),
          tags |-> Sorted(SplitAll(tbl) \ {<<>>}), funding |-> 0]

\* The papers module returns a dictionary without statistics for a missing
\* file, has no exception handler and keeps the empty token.
papers_get_database_stats(db, tbl, fault) ==
    IF db = "missing" THEN [out |-> "database_exists False", total |-> 0, tags |-> <<>>,
                            funding |-> 0]
    ELSE IF db # "ready" \/ fault THEN [out |-> Raised, total |-> 0, tags |-> <<>>,
                                         funding |-> 0]
    ELSE [out |-> "stats", total |-> Cardinality(tbl), tags |-> Sorted(SplitAll(tbl)),
          funding |-> 0]

(***************************************************************************)
(* Inputs of the model.                                                    *)
(***************************************************************************)
Kinds == {"grants", "jobs", "papers"}

\* Records handed to the saves: complete ones, two that share a natural key
\* and differ in the title, and ones that lack the key or a required field.
GrantRecs ==
    {[project_num |-> "G1", title |-> "T1"], [project_num |-> "G1", title |-> "T2"],
     [project_num |-> "G2", title |-> "T1"], [project_num |-> "G2", title |-> NULL],
     [project_num |-> NULL, title |-> "T1"], [project_num |-> "", title |-> "T1"]}

JobRecs ==
    {[url |-> "U1", title |-> "T1", company |-> "C1"],
     [url |-> "U1", title |-> "T2", company |-> "C1"],
     [url |-> "U2", title |-> "T1", company |-> "C1"],
     [url |-> "U2", title |-> "T1", company |-> NULL],
     [url |-> NULL, title |-> "T1", company |-> "C1"],
     [url |-> "", title |-> "T1", company |-> "C1"]}

PaperRecs ==
    {[pmid |-> "111", arxiv_id |-> ABSENT, title |-> "T1"],
     [pmid |-> "111", arxiv_id |-> "2301.1", title |-> "T2"],
     [pmid |-> NA, arxiv_id |-> "2301.1", title |-> "T1"],
     [pmid |-> NAN, arxiv_id |-> "2301.1", title |-> "T1"],
     [pmid |-> NAN, arxiv_id |-> "2301.2", title |-> "T1"],
     [pmid |-> "", arxiv_id |-> "2301.2", title |-> "T1"],
     [pmid |-> "222", arxiv_id |-> NA, title |-> NULL],
     [pmid |-> NA, arxiv_id |-> ABSENT, title |-> "T1"],
     [pmid |-> "", arxiv_id |-> "", title |-> "T1"]}

GrantKeys == {"G1", "G2", ""}
JobUrls == {"U1", "U2", ""}
PaperIds == {"111", "2301.1", "2301.2"}

\* Sequences of at most n elements of S
SeqUpTo(S, n) == UNION {[1..m -> S] : m \in 0..n}

\* The faults of one batch, one entry per record: at most MaxFaults of the saves fail.
FaultSeqs(dom, Flts) ==
    {f \in [dom -> Flts] : Cardinality({i \in dom : f[i] # "none"}) <= MaxFaults}

Store(tbl) == [tbl |-> tbl, seq |-> seq, db |-> dbState]

(***************************************************************************)
(* Actions: one per function of the three modules.  The sets an action is  *)
(* given are the arguments it is called with.                              *)
(***************************************************************************)
Init ==
    /\ kind \in Kinds
    /\ dbState \in {"missing", "notable", "ready"}
    /\ grants = {} /\ jobs = {} /\ papers = {}
    /\ seq = 0 /\ now = 0
    /\ last = [op |-> "init"]
    /\ procs = [p \in {1, 2} |-> [fn |-> "none", pc |-> "idle", queue |-> <<>>,
                                  tags |-> [some |-> FALSE, val |-> <<>>],
                                  add |-> [some |-> FALSE, val |-> <<>>],
                                  outs |-> <<>>, open |-> 0, txn |-> {}, txnseq |-> 0,
                                  cur |-> {}, ret |-> "None", done |-> {}]]

\* Time passes between two calls.
Tick ==
    /\ now < MaxClock
    /\ now' = now + 1
    /\ last' = [op |-> "tick"]
    /\ UNCHANGED <<procs, kind, dbState, grants, jobs, papers, seq>>

save_grant(Recs, Tags, Notes, Flts) ==
    /\ kind = "grants"
    /\ \E rec \in Recs, tags \in Tags, notes \in Notes, fault \in Flts :
         LET r == save_grant_result(Store(grants), rec, tags, notes, now, fault)
         IN  /\ r.seq <= MaxInserts
             /\ grants' = r.tbl /\ seq' = r.seq /\ dbState' = r.db
             /\ last' = [op |-> "save", rec |-> rec, tags |-> tags, notes |-> notes,
                         fault |-> fault, out |-> r.out]
    /\ UNCHANGED <<procs, kind, jobs, papers, now>>

save_grants_batch(Recs, Tags, Flts) ==
    /\ kind = "grants"
    /\ \E recs \in SeqUpTo(Recs, MaxBatch), tags \in Tags :
       \E faults \in FaultSeqs(DOMAIN recs, Flts) :
         LET r == save_grants_batch_result(Store(grants), recs, tags, now, faults)
         IN  /\ r.st.seq <= MaxInserts
             /\ grants' = r.st.tbl /\ seq' = r.st.seq /\ dbState' = r.st.db
             /\ last' = [op |-> "batch", recs |-> recs, tags |-> tags,
                         faults |-> faults, stats |-> r.stats]
    /\ UNCHANGED <<procs, kind, jobs, papers, now>>

\* init_db of the store the behaviour follows, called on its own.
init_db(Verbose, Flts) ==
    /\ \E verbose \in Verbose, fault \in Flts :
         LET r == CASE kind = "grants" -> grants_init_db(dbState, fault)
                    [] kind = "jobs"   -> jobs_init_db(dbState, fault)
                    [] kind = "papers" -> papers_init_db(dbState, verbose, fault)
         IN  /\ dbState' = r.db
             /\ last' = [op |-> "init_db", verbose |-> verbose, fault |-> fault,
                         out |-> r.out]
    /\ UNCHANGED <<procs, kind, grants, jobs, papers, seq, now>>

tag_grant(Keys, Tags, Add, Remove, Notes, Flts) ==
    /\ kind = "grants"
    /\ \E key \in Keys, tags \in Tags, add \in Add, remove \in Remove,
          notes \in Notes, fault \in Flts :
         LET r == tag_grant_result(dbState, grants, key, tags, add, remove, notes, fault)
         IN  /\ grants' = r.tbl
             /\ last' = [op |-> "edit", key |-> key, tags |-> tags, add |-> add,
                         remove |-> remove, notes |-> notes, fault |-> fault,
                         out |-> r.out]
    /\ UNCHANGED <<procs, kind, dbState, jobs, papers, seq, now>>

delete_grant(Keys, Flts) ==
    /\ kind = "grants"
    /\ \E key \in Keys, fault \in Flts :
         LET r == delete_grant_result(dbState, grants, key, fault)
         IN  /\ grants' = r.tbl
             /\ last' = [op |-> "delete", key |-> key, fault |-> fault, out |-> r.out]
    /\ UNCHANGED <<procs, kind, dbState, jobs, papers, seq, now>>

save_job(Recs, Tags, Notes, Stats, Flts) ==
    /\ kind = "jobs"
    /\ \E rec \in Recs, tags \in Tags, notes \in Notes, status \in Stats, fault \in Flts :
         LET r == save_job_result(Store(jobs), rec, tags, notes, status, now, fault)
         IN  /\ r.seq <= MaxInserts
             /\ jobs' = r.tbl /\ seq' = r.seq /\ dbState' = r.db
             /\ last' = [op |-> "save", rec |-> rec, tags |-> tags, notes |-> notes,
                         status |-> status, fault |-> fault, out |-> r.out]
    /\ UNCHANGED <<procs, kind, grants, papers, now>>

save_jobs_batch(Recs, Tags, Stats, Flts) ==
    /\ kind = "jobs"
    /\ \E recs \in SeqUpTo(Recs, MaxBatch), tags \in Tags, status \in Stats :
       \E faults \in FaultSeqs(DOMAIN recs, Flts) :
         LET r == save_jobs_batch_result(Store(jobs), recs, tags, status, now, faults)
         IN  /\ r.st.seq <= MaxInserts
             /\ jobs' = r.st.tbl /\ seq' = r.st.seq /\ dbState' = r.st.db
             /\ last' = [op |-> "batch", recs |-> recs, tags |-> tags,
                         status |-> status, faults |-> faults, stats |-> r.stats]
    /\ UNCHANGED <<procs, kind, grants, papers, now>>

update_job_status(Ids, Urls, Stats, Tags, Add, Remove, Notes, Flts) ==
    /\ kind = "jobs"
    /\ \E id \in Ids, url \in Urls, status \in Stats, tags \in Tags, add \in Add,
          remove \in Remove, notes \in Notes, fault \in Flts :
         LET r == update_job_status_result(dbState, jobs, id, url, status, tags, add,
                                           remove, notes, fault)
         IN  /\ jobs' = r.tbl
             /\ last' = [op |-> "edit", id |-> id, key |-> url, status |-> status,
                         tags |-> tags, add |-> add, remove |-> remove,
                         notes |-> notes, fault |-> fault, out |-> r.out]
    /\ UNCHANGED <<procs, kind, dbState, grants, papers, seq, now>>

delete_job(Ids, Urls, Flts) ==
    /\ kind = "jobs"
    /\ \E id \in Ids, url \in Urls, fault \in Flts :
         LET r == delete_job_result(dbState, jobs, id, url, fault)
         IN  /\ jobs' = r.tbl
             /\ last' = [op |-> "delete", id |-> id, key |-> url, fault |-> fault,
                         out |-> r.out]
    /\ UNCHANGED <<procs, kind, dbState, grants, papers, seq, now>>

save_paper(Recs, Tags, Notes, Flts) ==
    /\ kind = "papers"
    /\ \E rec \in Recs, tags \in Tags, notes \in Notes, fault \in Flts :
         LET r == save_paper_result(Store(papers), rec, tags, notes, now, fault)
         IN  /\ r.seq <= MaxInserts
             /\ papers' = r.tbl /\ seq' = r.seq /\ dbState' = r.db
             /\ last' = [op |-> "save", rec |-> rec, tags |-> tags, notes |-> notes,
                         fault |-> fault, out |-> r.out]
    /\ UNCHANGED <<procs, kind, grants, jobs, now>>

save_papers_batch(Recs, Tags, Flts) ==
    /\ kind = "papers"
    /\ \E recs \in SeqUpTo(Recs, MaxBatch), tags \in Tags :
       \E faults \in FaultSeqs(DOMAIN recs, Flts) :
         LET r == save_papers_batch_result(Store(papers), recs, tags, now, faults)
         IN  /\ r.st.seq <= MaxInserts
             /\ papers' = r.st.tbl /\ seq' = r.st.seq /\ dbState' = r.st.db
             /\ last' = [op |-> "batch", recs |-> recs, tags |-> tags,
                         faults |-> faults, stats |-> r.stats]
    /\ UNCHANGED <<procs, kind, grants, jobs, now>>

tag_paper(Ids, Types, Tags, Add, Remove, Notes, Flts) ==
    /\ kind = "papers"
    /\ \E key \in Ids, type \in Types, tags \in Tags, add \in Add, remove \in Remove,
          notes \in Notes, fault \in Flts :
         LET r == tag_paper_result(dbState, papers, key, type, tags, add, remove,
                                   notes, fault)
         IN  /\ papers' = r.tbl
             /\ last' = [op |-> "edit", key |-> key, type |-> type, tags |-> tags,
                         add |-> add, remove |-> remove, notes |-> notes,
                         fault |-> fault, out |-> r.out]
    /\ UNCHANGED <<procs, kind, dbState, grants, jobs, seq, now>>

delete_paper(Ids, Types, Flts) ==
    /\ kind = "papers"
    /\ \E key \in Ids, type \in Types, fault \in Flts :
         LET r == delete_paper_result(dbState, papers, key, type, fault)
         IN  /\ papers' = r.tbl
             /\ last' = [op |-> "delete", key |-> key, type |-> type, fault |-> fault,
                         out |-> r.out]
    /\ UNCHANGED <<procs, kind, dbState, grants, jobs, seq, now>>

search_grants_db(Filters, Flts) ==
    /\ kind = "grants"
    /\ \E f \in Filters, fault \in Flts :
         LET r == search_grants_db_result(dbState, grants, f, fault)
         IN  \E q \in search_grants_db_order(r.rows) :
                last' = [op |-> "search", f |-> f, fault |-> fault, out |-> r.out,
                         rows |-> r.rows, seq |-> q]
    /\ UNCHANGED <<procs, kind, dbState, grants, jobs, papers, seq, now>>

search_jobs_db(Filters, Flts) ==
    /\ kind = "jobs"
    /\ \E f \in Filters, fault \in Flts :
         LET r == search_jobs_db_result(dbState, jobs, f, fault)
         IN  \E q \in search_jobs_db_order(r.rows) :
                last' = [op |-> "search", f |-> f, fault |-> fault, out |-> r.out,
                         rows |-> r.rows, seq |-> q]
    /\ UNCHANGED <<procs, kind, dbState, grants, jobs, papers, seq, now>>

search_papers_db(Filters, Flts) ==
    /\ kind = "papers"
    /\ \E f \in Filters, fault \in Flts :
         LET r == search_papers_db_result(dbState, papers, f, fault)
         IN  \E q \in search_papers_db_order(r.rows) :
                last' = [op |-> "search", f |-> f, fault |-> fault, out |-> r.out,
                         rows |-> r.rows, seq |-> q]
    /\ UNCHANGED <<procs, kind, dbState, grants, jobs, papers, seq, now>>

(***************************************************************************)
(* Spec: single saves, batch saves, edits and deletes of the three stores. *)
(***************************************************************************)
get_database_stats(Flts) ==
    /\ \E fault \in Flts :
         LET r == CASE kind = "grants" -> grants_get_database_stats(dbState, grants, fault)
                    [] kind = "jobs"   -> jobs_get_database_stats(dbState, jobs, fault)
                    [] kind = "papers" -> papers_get_database_stats(dbState, papers, fault)
         IN  last' = [op |-> "stats", fault |-> fault, out |-> r.out, total |-> r.total,
                      tags |-> r.tags, funding |-> r.funding]
    /\ UNCHANGED <<procs, kind, dbState, grants, jobs, papers, seq, now>>

AddA == Some(<<<<"a">>>>)

Next ==
    \/ save_grant(GrantRecs, {None}, {NULL, "n1"}, {"none", "write"})
    \/ save_grants_batch({r \in GrantRecs : r.title = "T1" /\ r.project_num \in {"G2", NULL}},
                         {None}, {"none"})
    \/ tag_grant(GrantKeys, {None}, {AddA}, {None}, {NULL}, {FALSE})
    \/ delete_grant(GrantKeys, {FALSE})
    \/ save_job(JobRecs, {None}, {NULL, "n1"}, {"new"}, {"none", "write"})
    \/ save_jobs_batch({r \in JobRecs : r.company = "C1" /\ r.url \in {"U2", NULL}},
                       {None}, {"new"}, {"none"})
    \/ update_job_status({0}, JobUrls, {"applied"}, {None}, {AddA}, {None}, {NULL}, {FALSE})
    \/ delete_job({0}, JobUrls, {FALSE})
    \/ save_paper({r \in PaperRecs : r.pmid \in {"111", "222", NA}},
                  {None}, {NULL, "n1"}, {"none", "write"})
    \/ save_papers_batch({r \in PaperRecs : r.pmid = NA}, {None}, {"none"})
    \/ tag_paper(PaperIds, {"auto"}, {None}, {AddA}, {None}, {NULL}, {FALSE})
    \/ delete_paper(PaperIds, {"auto"}, {FALSE})
    \/ Tick

Spec == Init /\ [][Next]_vars

(***************************************************************************)
(* Vocabulary of the properties.                                           *)
(***************************************************************************)
\* The table of the store the behaviour follows.
Tbl == CASE kind = "grants" -> grants [] kind = "jobs" -> jobs [] kind = "papers" -> papers

\* Values that stand for "no identifier" in a record or in a stored column.
NoId == {ABSENT, NA, NULL, NAN, "", "None", "nan"}

\* The natural keys a record or a row carries, as <<column, value>> pairs.
NatKeys(r) ==
    CASE kind = "grants" -> {<<"project_num", r.project_num>>} \ {<<"project_num", v>> : v \in NoId}
      [] kind = "jobs"   -> {<<"url", r.url>>} \ {<<"url", v>> : v \in NoId}
      [] kind = "papers" -> {<<"pmid", r.pmid>>, <<"arxiv_id", r.arxiv_id>>}
                            \ ({<<"pmid", v>> : v \in NoId} \cup {<<"arxiv_id", v>> : v \in NoId})

\* An entity with one of the record's natural keys is stored in table tbl.
KeyStored(tbl, rec) == \E r \in tbl : NatKeys(r) \cap NatKeys(rec) # {}

\* The rows of tbl stored under one of the record's natural keys.
StoredAs(tbl, rec) == {r \in tbl : NatKeys(r) \cap NatKeys(rec) # {}}

(***************************************************************************)
(* C1. In every reachable state no two rows of a table hold the same       *)
(* non-NULL value in a natural-key column: project_num of grants, url of   *)
(* jobs, pmid of papers, arxiv_id of papers.                               *)
(***************************************************************************)
C1_KeyUnique ==
    /\ \A r1, r2 \in grants : r1.project_num = r2.project_num => r1 = r2
    /\ \A r1, r2 \in jobs : (r1.url # NULL /\ r1.url = r2.url) => r1 = r2
    /\ \A r1, r2 \in papers :
          \/ r1.pmid # NULL /\ r1.pmid = r2.pmid
          \/ r1.arxiv_id # NULL /\ r1.arxiv_id = r2.arxiv_id
          => r1 = r2

\* Two entities are stored and a save of a record under a stored key was just refused.
C1_Witness ==
    /\ Cardinality(Tbl) = 2
    /\ last.op = "save" /\ last.fault = "none" /\ last.out = RetFalse
    /\ KeyStored(Tbl, last.rec)

(***************************************************************************)
(* C2. A save (without storage fault) of a record one of whose natural     *)
(* keys is already stored returns False and leaves all three tables, hence *)
(* every column of every row, unchanged.                                   *)
(***************************************************************************)
C2_DedupNonDestructive ==
    [][(last'.op = "save" /\ last'.fault = "none" /\ KeyStored(Tbl, last'.rec))
       => (last'.out = RetFalse /\ UNCHANGED <<grants, jobs, papers, seq>>)]_vars

\* A refused save whose record differs in title and notes from the row stored
\* under its key.
C2_Witness ==
    /\ last.op = "save" /\ last.fault = "none" /\ last.out = RetFalse
    /\ \E r \in StoredAs(Tbl, last.rec) :
          r.title # last.rec.title /\ r.notes # last.notes /\ r.tags # <<>>

(***************************************************************************)
(* C4. A save of a record with no populated natural-key field does not     *)
(* succeed, and every stored entity has at least one non-empty natural-key *)
(* field.                                                                  *)
(***************************************************************************)
C4_KeyRequired ==
    /\ (last.op = "save" /\ NatKeys(last.rec) = {}) => last.out # RetTrue
    /\ \A r \in Tbl : NatKeys(r) # {}

(***************************************************************************)
(* C7. A single save of a record that carries a natural key returns the    *)
(* duplicate outcome (False) only when an entity with one of its natural   *)
(* keys was already stored; every other failure has another outcome.       *)
(***************************************************************************)
C7_FalseOnlyForDuplicate ==
    [][(last'.op = "save" /\ NatKeys(last'.rec) # {} /\ last'.out = RetFalse)
       => KeyStored(Tbl, last'.rec)]_vars

(***************************************************************************)
(* SpecBatch: batch saves into the three stores, with storage faults.      *)
(***************************************************************************)
NextBatch ==
    \/ save_grants_batch({r \in GrantRecs : r.title # NULL}, {None}, {"none", "init"})
    \/ save_jobs_batch({r \in JobRecs : r.company # NULL}, {None}, {"new"}, {"none", "init"})
    \/ save_papers_batch({r \in PaperRecs : r.title # NULL /\ r.pmid # ""}, {None},
                         {"none", "init"})

SpecBatch == Init /\ [][NextBatch]_vars

(***************************************************************************)
(* Vocabulary of the batch properties.                                     *)
(***************************************************************************)
\* The record has the fields the table requires (title; company for jobs).
Complete(rec) ==
    CASE kind = "grants" -> rec.title # NULL
      [] kind = "jobs"   -> rec.title # NULL /\ rec.company # NULL
      [] kind = "papers" -> rec.title \notin {NULL, NAN}

\* A valid record: complete, with at least one populated natural key.
Valid(rec) == Complete(rec) /\ NatKeys(rec) # {}

NoFaults(faults) == \A i \in DOMAIN faults : faults[i] = "none"

\* No two records of the batch carry the same natural key.
DistinctKeys(recs) ==
    \A i, j \in DOMAIN recs : i # j => NatKeys(recs[i]) \cap NatKeys(recs[j]) = {}

\* The batch of the last call run on store st with the records in order recs.
RunBatch(st, recs, call) ==
    BatchLoop(kind, st, NoStats, recs, call.tags,
              IF kind = "jobs" THEN call.status ELSE "new", now,
              [i \in DOMAIN recs |-> "none"])

\* The persisted entities: the rows apart from internal id and timestamp.
Persisted(tbl) == {[r EXCEPT !.id = 0, !.added = 0] : r \in tbl}

\* All orderings of a sequence.
Perms(s) ==
    {[i \in DOMAIN s |-> s[f[i]]] :
        f \in {g \in [DOMAIN s -> DOMAIN s] : \A i, j \in DOMAIN s : g[i] = g[j] => i = j}}

\* The non-NULL values a save of the record puts into the UNIQUE columns.
UniqueCols(rec) ==
    CASE kind = "grants" -> {<<"project_num", rec.project_num>>} \ {<<"project_num", NULL>>}
      [] kind = "jobs"   -> {<<"url", rec.url>>} \ {<<"url", NULL>>}
      [] kind = "papers" -> {<<"pmid", PaperId(rec.pmid)>>, <<"arxiv_id", PaperId(rec.arxiv_id)>>}
                            \ {<<"pmid", NULL>>, <<"arxiv_id", NULL>>}

\* No two different records of the batch collide on a UNIQUE column.
NoConflict(recs) ==
    \A i, j \in DOMAIN recs :
        recs[i] # recs[j] => UniqueCols(recs[i]) \cap UniqueCols(recs[j]) = {}

(***************************************************************************)
(* C3. A fault-free batch save of N valid records with pairwise distinct   *)
(* natural keys, none of them stored, returns saved = N, skipped = 0; a    *)
(* second batch save of the same records returns saved = 0, skipped = N    *)
(* and leaves the table as the first run left it.                          *)
(***************************************************************************)
C3_BatchIdempotent ==
    [][(/\ last'.op = "batch" /\ NoFaults(last'.faults)
        /\ \A i \in DOMAIN last'.recs :
              Valid(last'.recs[i]) /\ ~KeyStored(Tbl, last'.recs[i])
        /\ DistinctKeys(last'.recs))
       => LET n == Len(last'.recs)
              again == RunBatch([tbl |-> Tbl', seq |-> seq', db |-> dbState'],
                                last'.recs, last')
          IN  /\ last'.stats = [saved |-> n, skipped |-> 0, errors |-> 0]
              /\ again.stats = [saved |-> 0, skipped |-> n, errors |-> 0]
              /\ again.st.tbl = Tbl']_vars

(***************************************************************************)
(* C5. A fault-free batch save into an empty table of V >= 1 valid records *)
(* with distinct natural keys and M >= 1 complete records without a        *)
(* natural key returns saved = V, skipped = 0, errors = M.                 *)
(***************************************************************************)
C5_PartialBatchCounts ==
    [][(/\ last'.op = "batch" /\ NoFaults(last'.faults) /\ Tbl = {}
        /\ \A i \in DOMAIN last'.recs : Complete(last'.recs[i])
        /\ DistinctKeys(last'.recs)
        /\ \E i, j \in DOMAIN last'.recs :
              NatKeys(last'.recs[i]) # {} /\ NatKeys(last'.recs[j]) = {})
       => LET V == Cardinality({i \in DOMAIN last'.recs : NatKeys(last'.recs[i]) # {}})
              M == Cardinality({i \in DOMAIN last'.recs : NatKeys(last'.recs[i]) = {}})
          IN  last'.stats = [saved |-> V, skipped |-> 0, errors |-> M]]_vars

(***************************************************************************)
(* C6. A batch save attempts every record: saved + skipped + errors is the *)
(* number of records, and every valid record whose save met no fault and   *)
(* whose natural keys were neither stored before the batch nor carried by  *)
(* an earlier record of the batch is stored afterwards.                    *)
(***************************************************************************)
C6_BatchNeverAborts ==
    [][last'.op = "batch"
       => /\ last'.stats.saved + last'.stats.skipped + last'.stats.errors
             = Len(last'.recs)
          /\ \A i \in DOMAIN last'.recs :
                (/\ Valid(last'.recs[i]) /\ last'.faults[i] = "none"
                 /\ ~KeyStored(Tbl, last'.recs[i])
                 /\ \A j \in 1..(i - 1) :
                       NatKeys(last'.recs[j]) \cap NatKeys(last'.recs[i]) = {})
                => \E r \in Tbl' : /\ NatKeys(r) \cap NatKeys(last'.recs[i]) # {}
                                   /\ r.title = last'.recs[i].title]_vars

TagA == <<"a">>
TagB == <<"b">>
TagC == <<"c">>
TagEmpty == <<>>                     \* the empty string given as a tag
TagComma == <<"a", ",", "b">>        \* the tag 'a,b'

TagSaveLists == {None, Some(<<TagB, TagA>>), Some(<<TagA, TagA>>)}
TagReplaceLists == {None, Some(<<>>), Some(<<TagB, TagA>>), Some(<<TagEmpty>>)}
TagAddLists == {None, Some(<<TagB, TagC>>), Some(<<TagEmpty>>), Some(<<TagComma>>)}
TagRemoveLists == {None, Some(<<TagB>>)}

\* The one entity of each kind whose tags are edited.
TagGrantRecs == {[project_num |-> "G1", title |-> "T1"]}
TagJobRecs == {[url |-> "U1", title |-> "T1", company |-> "C1"]}
TagPaperRecs == {[pmid |-> "111", arxiv_id |-> ABSENT, title |-> "T1"]}

NextTags ==
    \/ save_grant(TagGrantRecs, TagSaveLists, {NULL}, {"none"})
    \/ save_grants_batch(TagGrantRecs, TagSaveLists, {"none"})
    \/ tag_grant({"G1"}, TagReplaceLists, TagAddLists, TagRemoveLists, {NULL}, {FALSE})
    \/ save_job(TagJobRecs, TagSaveLists, {NULL},
                {"new"}, {"none"})
    \/ save_jobs_batch(TagJobRecs, TagSaveLists,
                       {"new"}, {"none"})
    \/ update_job_status({0, 1}, {"U1"}, {NULL}, TagReplaceLists, TagAddLists,
                         TagRemoveLists, {NULL}, {FALSE})
    \/ save_paper(TagPaperRecs, TagSaveLists,
                  {NULL}, {"none"})
    \/ save_papers_batch(TagPaperRecs,
                         TagSaveLists, {"none"})
    \/ tag_paper({"111"}, {"auto"}, TagReplaceLists, TagAddLists, TagRemoveLists,
                 {NULL}, {FALSE})

SpecTags == Init /\ [][NextTags]_vars

\* The rows an edit call addresses.
EditTarget(tbl, call) ==
    CASE kind = "grants" -> {r \in tbl : r.project_num = call.key}
      [] kind = "jobs"   -> JobTarget(tbl, call.id, call.key)
      [] kind = "papers" -> PaperTarget(tbl, call.key, call.type)

\* An optional list as a set of tags.
AsSet(o) == IF o.some THEN ToSet(o.val) ELSE {}

\* The canonical serialization of the tag set a tags string holds.
Canonical(str) == Join(Sorted(ParseTags(str)))

\* A tag the serialization can hold: not empty, no comma.
WellFormed(tag) == tag # <<>> /\ \A i \in DOMAIN tag : tag[i] # ","

(***************************************************************************)
(* C9. The tags string of every stored entity is the canonical             *)
(* serialization of its tag set: sorted, comma-joined, no duplicate and no *)
(* empty token.                                                            *)
(***************************************************************************)
C9_TagsCanonical == \A r \in Tbl : r.tags = Canonical(r.tags)

(***************************************************************************)
(* C10, as claimed. After a successful edit without a replace list the tag *)
(* set stored for the entity is (current + add_tags) - remove_tags, for    *)
(* all add and remove lists.                                               *)
(***************************************************************************)
C10_AddThenRemove ==
    [][(last'.op = "edit" /\ last'.out = RetTrue /\ ~last'.tags.some)
       => \A r \in EditTarget(Tbl, last') : \A q \in Tbl' :
             q.id = r.id
             => ParseTags(q.tags)
                = (ParseTags(r.tags) \cup AsSet(last'.add)) \ AsSet(last'.remove)]_vars

(***************************************************************************)
(* C10, amended. The same, for add lists whose tags are not empty and      *)
(* contain no comma.                                                       *)
(***************************************************************************)
C10_AddThenRemoveWellFormed ==
    [][(/\ last'.op = "edit" /\ last'.out = RetTrue /\ ~last'.tags.some
        /\ \A t \in AsSet(last'.add) : WellFormed(t))
       => \A r \in EditTarget(Tbl, last') : \A q \in Tbl' :
             q.id = r.id
             => ParseTags(q.tags)
                = (ParseTags(r.tags) \cup AsSet(last'.add)) \ AsSet(last'.remove)]_vars

\* applyEdit({a, b}, add [b, c], remove [b]) has left {a, c}: b, in both lists, is gone.
C10_Witness ==
    /\ last.op = "edit" /\ last.out = RetTrue /\ ~last.tags.some
    /\ last.add = Some(<<TagB, TagC>>) /\ last.remove = Some(<<TagB>>)
    /\ \E r \in EditTarget(Tbl, last) : r.tags = <<"a", ",", "c">>

\* The row of tbl2 that holds the entity of row r.
SameEntity(r, tbl2) == {q \in tbl2 : q.id = r.id}

\* A call that edits the tags with a replace list and succeeds.
ReplaceEdit(call) == call.op = "edit" /\ call.out = RetTrue /\ call.tags.some

\* A call that succeeds and asks for no change of the tags.
NoTagEdit(call) ==
    /\ call.op = "edit" /\ call.out = RetTrue
    /\ ~call.tags.some /\ ~call.add.some /\ ~call.remove.some

(***************************************************************************)
(* C11, as claimed. After a successful edit given a replace list together  *)
(* with add_tags and/or remove_tags, the tag set stored for the entity is  *)
(* the set of the replace list, whatever the current tags and the add and  *)
(* remove lists are.                                                       *)
(***************************************************************************)
C11_ReplaceWins ==
    [][(ReplaceEdit(last') /\ (last'.add.some \/ last'.remove.some))
       => \A r \in EditTarget(Tbl, last') : \A q \in SameEntity(r, Tbl') :
             ParseTags(q.tags) = ToSet(last'.tags.val)]_vars

(***************************************************************************)
(* C11, amended. The same, for replace lists whose tags are not empty and  *)
(* contain no comma.                                                       *)
(***************************************************************************)
C11_ReplaceWinsWellFormed ==
    [][(/\ ReplaceEdit(last') /\ (last'.add.some \/ last'.remove.some)
        /\ \A t \in ToSet(last'.tags.val) : WellFormed(t))
       => \A r \in EditTarget(Tbl, last') : \A q \in SameEntity(r, Tbl') :
             ParseTags(q.tags) = ToSet(last'.tags.val)]_vars

\* Replace [b, a] given with add [b, c] and remove [b]: b is stored, c is not.
C11_Witness ==
    /\ ReplaceEdit(last)
    /\ last.tags = Some(<<TagB, TagA>>)
    /\ last.add = Some(<<TagB, TagC>>) /\ last.remove = Some(<<TagB>>)
    /\ \E r \in EditTarget(Tbl, last) : ParseTags(r.tags) = {TagA, TagB}

(***************************************************************************)
(* C13, as claimed. For every replace list s whose tags contain no comma,  *)
(* an edit that replaces the tags with s followed by an edit of the same   *)
(* entity with no tag change leaves the stored tag set equal to s: the     *)
(* parse of the serialization of s is s.                                   *)
(***************************************************************************)
C13_RoundTrip ==
    [][(/\ ReplaceEdit(last) /\ NoTagEdit(last')
        /\ EditTarget(Tbl, last) = EditTarget(Tbl, last')
        /\ \A t \in ToSet(last.tags.val) : \A i \in DOMAIN t : t[i] # ",")
       => \A r \in EditTarget(Tbl, last') : \A q \in SameEntity(r, Tbl') :
             /\ ParseTags(r.tags) = ToSet(last.tags.val)
             /\ ParseTags(q.tags) = ToSet(last.tags.val)
             /\ ParseTags(Join(Sorted(ToSet(last.tags.val)))) = ToSet(last.tags.val)]_vars

(***************************************************************************)
(* C13, amended. The same, for replace lists whose tags contain no comma   *)
(* and are not empty.                                                      *)
(***************************************************************************)
C13_RoundTripNonEmpty ==
    [][(/\ ReplaceEdit(last) /\ NoTagEdit(last')
        /\ EditTarget(Tbl, last) = EditTarget(Tbl, last')
        /\ \A t \in ToSet(last.tags.val) : WellFormed(t))
       => \A r \in EditTarget(Tbl, last') : \A q \in SameEntity(r, Tbl') :
             /\ ParseTags(r.tags) = ToSet(last.tags.val)
             /\ ParseTags(q.tags) = ToSet(last.tags.val)
             /\ ParseTags(Join(Sorted(ToSet(last.tags.val)))) = ToSet(last.tags.val)]_vars

\* An edit without tag change has succeeded on a grant whose tags column holds
\* 'b,a', the unsorted string a replace with [b, a] writes: the set is {a, b}.
C13_Witness ==
    /\ kind = "grants" /\ NoTagEdit(last)
    /\ \E r \in EditTarget(Tbl, last) :
          r.tags = <<"b", ",", "a">> /\ ParseTags(r.tags) = {TagA, TagB}

(***************************************************************************)
(* C12. An edit given both a replace list and add_tags or remove_tags is   *)
(* reported as an error and leaves the tags and notes of every stored      *)
(* entity unchanged.                                                       *)
(***************************************************************************)
C12_ReplaceWithAddRejected ==
    [][(/\ last'.op = "edit" /\ last'.tags.some
        /\ (last'.add.some \/ last'.remove.some))
       => last'.out # RetTrue /\ Tbl' = Tbl]_vars

(***************************************************************************)
(* Spec again: the edit frame.                                             *)
(***************************************************************************)
\* A row without the columns an edit may write.
Frame(r) ==
    IF kind = "jobs" THEN [r EXCEPT !.tags = <<>>, !.notes = NULL, !.status = NULL]
    ELSE [r EXCEPT !.tags = <<>>, !.notes = NULL]

(***************************************************************************)
(* C14. An edit changes only the tags, notes and (jobs) status columns of  *)
(* the rows it targets: every other column of those rows, and every other  *)
(* row, is unchanged, no row appears or disappears; and in every step a    *)
(* row that stays stored keeps its added_timestamp.                        *)
(***************************************************************************)
C14_EditFrame ==
    [][/\ last'.op = "edit"
          => /\ {r.id : r \in Tbl'} = {r.id : r \in Tbl}
             /\ \A r \in Tbl : \A q \in SameEntity(r, Tbl') :
                   /\ Frame(q) = Frame(r)
                   /\ r \notin EditTarget(Tbl, last') => q = r
       /\ \A r \in Tbl : \A q \in SameEntity(r, Tbl') : q.added = r.added]_vars

\* A grant created at time 0 has been tagged at time 1 while another grant is
\* stored: its tags changed, its added_timestamp is still 0, the other is untouched.
C14_Witness ==
    /\ kind = "grants" /\ now = 1
    /\ last.op = "edit" /\ last.out = RetTrue
    /\ \E r \in EditTarget(Tbl, last) : r.tags = <<"a">> /\ r.added = 0
    /\ \E r \in Tbl \ EditTarget(Tbl, last) : r.tags = <<>>

(***************************************************************************)
(* SpecJobs: saves and status updates of jobs with arbitrary status        *)
(* arguments.                                                              *)
(***************************************************************************)
JobStatuses == {"new", "saved", "applied", "interviewing", "offer", "rejected"}

StatusArgs == {NULL, "new", "applied", "archived"}

NextJobs ==
    \/ save_job({r \in JobRecs : r.title = "T1" /\ r.url \in {"U1", "U2"}}, {None}, {NULL},
                StatusArgs, {"none"})
    \/ save_jobs_batch({r \in JobRecs : r.title = "T1" /\ r.url \in {"U1", "U2"}}, {None},
                       StatusArgs, {"none"})
    \/ update_job_status({0, 1}, {"U1", "U2"}, StatusArgs \cup {""}, {None}, {None}, {None},
                         {NULL}, {FALSE})

SpecJobs == Init /\ [][NextJobs]_vars

(***************************************************************************)
(* C15. The status of every stored job is one of new, saved, applied,      *)
(* interviewing, offer, rejected.                                          *)
(***************************************************************************)
C15_StatusInEnumeration == \A r \in jobs : r.status \in JobStatuses

(***************************************************************************)
(* C16. Under Spec, an edit or a delete whose key matches no stored entity *)
(* returns False, without raising, and leaves the store unchanged.         *)
(***************************************************************************)
C16_NotFoundReturnsFalse ==
    [][(last'.op \in {"edit", "delete"} /\ EditTarget(Tbl, last') = {})
       => (last'.out = RetFalse /\ Tbl' = Tbl /\ dbState' = dbState)]_vars

(***************************************************************************)
(* SpecInit: init_db called on its own, between saves and deletes, from    *)
(* every prior state of the database file.                                 *)
(***************************************************************************)
NextInit ==
    \/ init_db(BOOLEAN, BOOLEAN)
    \/ save_grant({r \in GrantRecs : r.title = "T1" /\ r.project_num \in {"G1", "G2"}},
                  {None}, {NULL}, {"none"})
    \/ delete_grant({"G1", "G2"}, {FALSE})
    \/ save_job({r \in JobRecs : r.title = "T1" /\ r.url \in {"U1", "U2"}},
                {None}, {NULL}, {"new"}, {"none"})
    \/ delete_job({0}, {"U1", "U2"}, {FALSE})
    \/ save_paper({r \in PaperRecs : r.title = "T1" /\ r.pmid \in {"111", NA}},
                  {None}, {NULL}, {"none"})
    \/ delete_paper({"111", "2301.1"}, {"auto"}, {FALSE})

SpecInit == Init /\ [][NextInit]_vars

(***************************************************************************)
(* C17. Whenever init_db returns normally the table of the kind exists,    *)
(* whatever the state of the database file was before, and no stored row   *)
(* has changed.                                                            *)
(***************************************************************************)
C17_InitEnsuresTable ==
    [][(last'.op = "init_db" /\ last'.out = Returned)
       => (dbState' = "ready" /\ Tbl' = Tbl)]_vars

(***************************************************************************)
(* SpecSearch: entities saved with text fields, numbers and tags, and      *)
(* searched with keywords, tags and the other filters.                     *)
(***************************************************************************)
TagAB == <<"a", "b">>

SearchSaveTags == {Some(<<TagAB>>), Some(<<TagA, TagC>>)}

SearchGrantRecs ==
    {[project_num |-> "G1", title |-> "ab", fiscal_year |-> "2020"],
     [project_num |-> "G2", title |-> "cb", abstract |-> "Ab", fiscal_year |-> "2024",
      award_amount |-> "500"]}

SearchJobRecs ==
    {[url |-> "U1", title |-> "ab", company |-> "C1", job_type |-> "fulltime"],
     [url |-> "U2", title |-> "cb", company |-> "Ab", salary_max |-> "100",
      is_remote |-> "True"]}

SearchPaperRecs ==
    {[pmid |-> "111", arxiv_id |-> ABSENT, title |-> "ab", year |-> "2020"],
     [pmid |-> NA, arxiv_id |-> "2301.1", title |-> "cb", abstract |-> "Ab",
      year |-> "2024", source |-> "arXiv"]}

Keywords == {NULL, "a", "%", "_"}
TagFilters == {None, Some(<<TagA>>), Some(<<TagA, TagC>>)}

\* The filter that gives no argument.
NoGrantFilter ==
    [keywords |-> NULL, tags |-> None, fiscal_year_from |-> NoNum,
     fiscal_year_to |-> NoNum, award_amount_min |-> NoNum, award_amount_max |-> NoNum]
NoJobFilter ==
    [keywords |-> NULL, location |-> NULL, tags |-> None, job_type |-> NULL,
     salary_min |-> NoNum, is_remote |-> NULL]
NoPaperFilter ==
    [keywords |-> NULL, tags |-> None, year_from |-> NoNum, year_to |-> NoNum,
     source |-> NULL]

GrantFilters ==
    {[NoGrantFilter EXCEPT !.keywords = k, !.tags = t, !.fiscal_year_from = y] :
        k \in Keywords, t \in TagFilters, y \in {NoNum, SomeNum(2024)}}
    \cup {[NoGrantFilter EXCEPT !.fiscal_year_to = SomeNum(2020)],
          [NoGrantFilter EXCEPT !.award_amount_min = SomeNum(100),
                                !.award_amount_max = SomeNum(500)],
          [NoGrantFilter EXCEPT !.award_amount_max = SomeNum(0)],
          [NoGrantFilter EXCEPT !.fiscal_year_from = SomeNum(0),
                                !.fiscal_year_to = SomeNum(0)]}

JobFilters ==
    {[NoJobFilter EXCEPT !.keywords = k, !.tags = t, !.job_type = j] :
        k \in Keywords, t \in TagFilters, j \in {NULL, "fulltime"}}
    \cup {[NoJobFilter EXCEPT !.salary_min = SomeNum(0)],
          [NoJobFilter EXCEPT !.is_remote = "True", !.location = "a"]}

PaperFilters ==
    {[NoPaperFilter EXCEPT !.keywords = k, !.tags = t, !.year_from = y] :
        k \in Keywords, t \in TagFilters, y \in {NoNum, SomeNum(2024)}}
    \cup {[NoPaperFilter EXCEPT !.year_to = SomeNum(2020)],
          [NoPaperFilter EXCEPT !.year_to = SomeNum(0)],
          [NoPaperFilter EXCEPT !.source = "arXiv"]}

NextSearch ==
    \/ save_grant(SearchGrantRecs, SearchSaveTags, {NULL}, {"none"})
    \/ search_grants_db(GrantFilters, {FALSE})
    \/ save_job(SearchJobRecs, SearchSaveTags, {NULL}, {"new"}, {"none"})
    \/ search_jobs_db(JobFilters, {FALSE})
    \/ save_paper(SearchPaperRecs, SearchSaveTags, {NULL}, {"none"})
    \/ search_papers_db(PaperFilters, {FALSE})

SpecSearch == Init /\ [][NextSearch]_vars

\* The search of the kind the behaviour follows.
SearchResult(f) ==
    CASE kind = "grants" -> search_grants_db_result(dbState, grants, f, FALSE)
      [] kind = "jobs"   -> search_jobs_db_result(dbState, jobs, f, FALSE)
      [] kind = "papers" -> search_papers_db_result(dbState, papers, f, FALSE)

NoFilter ==
    CASE kind = "grants" -> NoGrantFilter
      [] kind = "jobs"   -> NoJobFilter
      [] kind = "papers" -> NoPaperFilter

\* The filter that keeps clause c of f and gives no other argument.
Single(f, c) == [NoFilter EXCEPT ![c] = f[c]]

\* The stored entities as a search returns them.
Entities == IF kind = "papers" THEN {papers_columns(r) : r \in papers} ELSE Tbl

\* The text fields the keywords of the kind are looked up in.
TextFields ==
    CASE kind = "grants" -> {"title", "abstract", "pi_names", "organization"}
      [] kind = "jobs"   -> {"title", "description", "company"}
      [] kind = "papers" -> {"title", "abstract", "authors"}

\* k is a literal substring of text, the case of letters apart.
Substring(k, text) ==
    \E i \in 0..(Len(text) - Len(k)) :
        \A j \in 1..Len(k) : Lower(k[j]) = Lower(text[i + j])

(***************************************************************************)
(* C18. A search returns exactly the entities that the search with each of *)
(* its clauses alone returns, and a search given no clause returns every   *)
(* stored entity.                                                          *)
(***************************************************************************)
C18_FilterComposition ==
    [][last'.op = "search"
       => /\ \A c \in DOMAIN last'.f : SearchResult(Single(last'.f, c)).out = last'.out
          /\ last'.rows = {r \in Entities :
                             \A c \in DOMAIN last'.f :
                                r \in SearchResult(Single(last'.f, c)).rows}
          /\ (last'.f = NoFilter /\ last'.out = "rows") => last'.rows = Entities]_vars

\* A search with keywords, tags and a year has returned one of two stored
\* entities.
C18_Witness ==
    /\ last.op = "search" /\ last.out = "rows"
    /\ last.f.keywords = "a" /\ Truthy(last.f.tags)
    /\ kind = "grants" => last.f.fiscal_year_from = SomeNum(2024)
    /\ kind = "jobs" => last.f.job_type = "fulltime"
    /\ kind = "papers" => last.f.year_from = SomeNum(2024)
    /\ Cardinality(Tbl) = 2 /\ Cardinality(last.rows) = 1

(***************************************************************************)
(* C19. A search with a tag set T alone returns exactly the entities whose *)
(* stored tag set holds at least one tag of T (grants, jobs) or every tag  *)
(* of T (papers); a tag that is only a substring of a stored tag does not  *)
(* match.                                                                  *)
(***************************************************************************)
C19_TagMembership ==
    [][(/\ last'.op = "search" /\ last'.out = "rows"
        /\ Truthy(last'.f.tags) /\ last'.f = Single(last'.f, "tags"))
       => last'.rows =
             {r \in Entities :
                 IF kind = "papers"
                 THEN ToSet(last'.f.tags.val) \subseteq ParseTags(r.tags)
                 ELSE ToSet(last'.f.tags.val) \cap ParseTags(r.tags) # {}}]_vars

(***************************************************************************)
(* C20. A search with keywords k alone returns exactly the entities for    *)
(* which k is a literal substring, the case of letters apart, of one of    *)
(* the text fields of the kind, for every k, the ones holding % or _       *)
(* included.                                                               *)
(***************************************************************************)
C20_KeywordSubstring ==
    [][(/\ last'.op = "search" /\ last'.out = "rows"
        /\ last'.f.keywords # NULL /\ last'.f = Single(last'.f, "keywords"))
       => last'.rows =
             {r \in Entities :
                 \E c \in TextFields :
                    r[c] # NULL /\ Substring(Chars(last'.f.keywords), Chars(r[c]))}]_vars

\* The internal id of an entity a search returned.
IdOf(row) == IF kind = "papers"
             THEN (CHOOSE r \in papers : papers_columns(r) = row).id
             ELSE row.id

\* The sort key of the kind's search, as a pair that is larger for rows that
\* come first.
SortKey(row) ==
    CASE kind = "grants" -> <<SortRank(row.award_amount), 0>>
      [] kind = "jobs"   -> <<row.added, 0>>
      [] kind = "papers" -> <<SortRank(row.year), row.added>>

(***************************************************************************)
(* C21. The sequence a search returns is ordered by the sort key of the    *)
(* kind, descending, with ties broken by internal id, and a second         *)
(* identical search of the unmodified store returns the same sequence.     *)
(***************************************************************************)
C21_DeterministicOrder ==
    [][(last'.op = "search" /\ last'.out = "rows")
       => /\ \A i, j \in DOMAIN last'.seq :
                i < j => \/ SortKey(last'.seq[i])[1] > SortKey(last'.seq[j])[1]
                         \/ /\ SortKey(last'.seq[i])[1] = SortKey(last'.seq[j])[1]
                            /\ SortKey(last'.seq[i])[2] > SortKey(last'.seq[j])[2]
                         \/ /\ SortKey(last'.seq[i]) = SortKey(last'.seq[j])
                            /\ IdOf(last'.seq[i]) < IdOf(last'.seq[j])
          /\ (last.op = "search" /\ last.f = last'.f) => last'.seq = last.seq]_vars

(***************************************************************************)
(* Saves, tag edits, deletes and statistics of the three stores.           *)
(***************************************************************************)
StatsGrantRecs ==
    {[project_num |-> "G1", title |-> "T1", award_amount |-> "100"],
     [project_num |-> "G2", title |-> "T2", award_amount |-> "500"],
     [project_num |-> "G2", title |-> "T2"]}
StatsJobRecs ==
    {[url |-> "U1", title |-> "T1", company |-> "C1"],
     [url |-> "U2", title |-> "T2", company |-> "C1"]}
StatsPaperRecs ==
    {[pmid |-> "111", arxiv_id |-> ABSENT, title |-> "T1"],
     [pmid |-> ABSENT, arxiv_id |-> "2301.1", title |-> "T2"]}
StatsSaveTags == {None, Some(<<TagB, TagA>>)}
StatsAddTags == {None, Some(<<TagC>>), Some(<<TagEmpty>>)}

NextStats ==
    \/ init_db({FALSE}, {FALSE})
    \/ get_database_stats({FALSE})
    \/ save_grant(StatsGrantRecs, StatsSaveTags, {NULL}, {"none"})
    \/ tag_grant({"G1", "G2"}, {None}, StatsAddTags, TagRemoveLists, {NULL}, {FALSE})
    \/ delete_grant({"G1", "G2"}, {FALSE})
    \/ save_job(StatsJobRecs, StatsSaveTags, {NULL}, {"new"}, {"none"})
    \/ update_job_status({0}, {"U1", "U2"}, {NULL}, {None}, StatsAddTags, TagRemoveLists,
                         {NULL}, {FALSE})
    \/ delete_job({0}, {"U1", "U2"}, {FALSE})
    \/ save_paper(StatsPaperRecs, StatsSaveTags, {NULL}, {"none"})
    \/ tag_paper({"111", "2301.1"}, {"auto"}, {None}, StatsAddTags, TagRemoveLists,
                 {NULL}, {FALSE})
    \/ delete_paper({"111", "2301.1"}, {"auto"}, {FALSE})

SpecStats == Init /\ [][NextStats]_vars

(***************************************************************************)
(* C22. get_database_stats of every kind returns zeroed statistics without *)
(* raising when the file is missing, when the file has no table of the     *)
(* kind and when the table is empty.                                       *)
(***************************************************************************)
C22_StatsOfEmptyStore ==
    [][(last'.op = "stats" /\ Tbl = {})
       => /\ last'.out # Raised
          /\ last'.total = 0 /\ last'.tags = <<>> /\ last'.funding = 0]_vars

\* The union of the parsed tag sets of the stored entities.
RECURSIVE ParsedTags(_)
ParsedTags(rows) ==
    IF rows = {} THEN {}
    ELSE LET r == CHOOSE x \in rows : TRUE
         IN  ParseTags(r.tags) \cup ParsedTags(rows \ {r})

(***************************************************************************)
(* C23. After saves, tag edits and deletes, get_database_stats reports the *)
(* number of stored entities, the sorted duplicate-free union of their     *)
(* parsed tag sets without an empty token and, for grants, the sum of the  *)
(* stored award amounts.                                                   *)
(***************************************************************************)
C23_StatsAgree ==
    [][(last'.op = "stats" /\ dbState = "ready")
       => /\ last'.out = "stats"
          /\ last'.total = Cardinality(Tbl)
          /\ last'.tags = Sorted(ParsedTags(Tbl))
          /\ \A i \in DOMAIN last'.tags : last'.tags[i] # <<>>
          /\ kind = "grants" => last'.funding = SumAmounts(Tbl)]_vars

(***************************************************************************)
(* Calls in progress.  A process runs one call of a module function, one   *)
(* statement at a step: init_db's connect and CREATE TABLE, the function's *)
(* connect, its SELECT, its INSERT or UPDATE, commit and close.  SQLite    *)
(* lets one connection write at a time: a process that has written and not *)
(* yet committed holds the write lock.                                     *)
(***************************************************************************)
Procs == {1, 2}

Idle == [fn |-> "none", pc |-> "idle", queue |-> <<>>, tags |-> None, add |-> None,
         outs |-> <<>>, open |-> 0, txn |-> {}, txnseq |-> 0, cur |-> {},
         ret |-> Returned, done |-> {}]

Locked == \E p \in Procs : procs[p].pc = "commit"

SetTbl(t) ==
    /\ grants' = (IF kind = "grants" THEN t ELSE grants)
    /\ jobs' = (IF kind = "jobs" THEN t ELSE jobs)
    /\ papers' = (IF kind = "papers" THEN t ELSE papers)

\* The call returns (or raises) out for the record it works on; a batch goes
\* on with its next row, whatever the outcome.
Finish(pr, out) ==
    [pr EXCEPT !.outs = Append(@, out), !.queue = Tail(@), !.txn = {}, !.cur = {},
               !.done = IF out = RetTrue THEN @ \cup {Head(pr.queue)} ELSE @,
               !.pc = IF Tail(pr.queue) = <<>> THEN "done" ELSE "init_db"]

\* What follows init_db in the caller.
AfterInit(pr) ==
    IF pr.fn = "init_db" THEN Finish(pr, Returned)
    ELSE IF kind = "papers" /\ Falsy(PaperId(Head(pr.queue).pmid))
                            /\ Falsy(PaperId(Head(pr.queue).arxiv_id))
    THEN Finish(pr, RetFalse)
    ELSE [pr EXCEPT !.pc = "connect"]

\* An exception at a statement between connect and close: the grants and jobs
\* functions return False after their finally clause closed the connection;
\* save_paper re-raises after its finally clause; tag_paper and load_papers have
\* no handler, the connection stays open.
OnError(pr) ==
    IF kind # "papers" THEN [pr EXCEPT !.pc = "close", !.ret = RetFalse]
    ELSE IF pr.fn \in {"save", "batch"} THEN [pr EXCEPT !.pc = "close", !.ret = Raised]
    ELSE Finish(pr, Raised)

\* save_grant, save_job, save_paper (one row) or the batch save (several rows)
\* is called.
CallSave(Fn, Recs, Tags, Max) ==
    \E p \in Procs, recs \in SeqUpTo(Recs, Max) \ {<<>>}, tags \in Tags :
        /\ procs[p].pc = "idle"
        /\ procs' = [procs EXCEPT ![p] = [Idle EXCEPT !.fn = Fn, !.pc = "init_db",
                                                      !.queue = recs, !.tags = tags]]
        /\ UNCHANGED <<kind, dbState, grants, jobs, papers, seq, now, last>>

\* init_db is called on its own.
CallInit ==
    \E p \in Procs :
        /\ procs[p].pc = "idle"
        /\ procs' = [procs EXCEPT ![p] = [Idle EXCEPT !.fn = "init_db", !.pc = "init_db",
                                                      !.queue = <<NULL>>]]
        /\ UNCHANGED <<kind, dbState, grants, jobs, papers, seq, now, last>>

\* init_db up to sqlite3.connect, which creates the file.
StepInitConnect(Flts) ==
    \E p \in Procs, fault \in Flts :
        /\ procs[p].pc = "init_db"
        /\ IF kind = "papers" /\ dbState # "missing"
           THEN procs' = [procs EXCEPT ![p] = AfterInit(@)] /\ UNCHANGED dbState
           ELSE IF fault
           THEN procs' = [procs EXCEPT ![p] = Finish(@, Raised)] /\ UNCHANGED dbState
           ELSE /\ procs' = [procs EXCEPT ![p].pc = "init_create", ![p].open = @ + 1]
                /\ dbState' = IF dbState = "missing" THEN "notable" ELSE dbState
        /\ UNCHANGED <<kind, grants, jobs, papers, seq, now, last>>

\* init_db: CREATE TABLE IF NOT EXISTS, the indexes, commit and close.  When a
\* statement raises, close is not reached.
StepInitCreate(Flts) ==
    \E p \in Procs, fault \in Flts :
        /\ procs[p].pc = "init_create"
        /\ IF fault
           THEN procs' = [procs EXCEPT ![p] = Finish(@, Raised)] /\ UNCHANGED dbState
           ELSE /\ procs' = [procs EXCEPT ![p] = AfterInit([@ EXCEPT !.open = @ - 1])]
                /\ dbState' = "ready"
        /\ UNCHANGED <<kind, grants, jobs, papers, seq, now, last>>

\* sqlite3.connect of a save, a tag edit or a load.
StepConnect(Flts) ==
    \E p \in Procs, fault \in Flts :
        /\ procs[p].pc = "connect"
        /\ procs' = [procs EXCEPT ![p] =
                IF fault
                THEN Finish(@, IF kind = "papers" \/ procs[p].fn = "load"
                               THEN Raised ELSE RetFalse)
                ELSE [@ EXCEPT !.open = @ + 1,
                               !.pc = CASE procs[p].fn = "edit" -> "select"
                                        [] procs[p].fn = "load" -> "query"
                                        [] OTHER -> "insert"]]
        /\ UNCHANGED <<kind, dbState, grants, jobs, papers, seq, now, last>>

\* INSERT INTO ...: the UNIQUE, NOT NULL and CHECK constraints are tested
\* against the committed rows, the writer holds the lock until it commits.
StepInsert(Flts) ==
    \E p \in Procs, fault \in Flts :
        /\ procs[p].pc = "insert"
        /\ ~Locked
        /\ LET pr == procs[p]
               r == SaveOne(kind, Store(Tbl), Head(pr.queue), pr.tags, "new", now,
                            IF fault THEN "write" ELSE "none")
           IN  /\ r.seq <= MaxInserts
               /\ procs' = [procs EXCEPT ![p] =
                       IF r.out = RetTrue
                       THEN [pr EXCEPT !.pc = "commit", !.txn = r.tbl, !.txnseq = r.seq]
                       ELSE [pr EXCEPT !.pc = "close", !.ret = r.out]]
        /\ UNCHANGED <<kind, dbState, grants, jobs, papers, seq, now, last>>

\* conn.commit(): the rows the transaction wrote become the stored rows.
StepCommit ==
    \E p \in Procs :
        /\ procs[p].pc = "commit"
        /\ SetTbl(procs[p].txn)
        /\ seq' = procs[p].txnseq
        /\ procs' = [procs EXCEPT ![p].pc = "close", ![p].ret = RetTrue]
        /\ UNCHANGED <<kind, dbState, now, last>>

\* conn.close() and the return.
StepClose ==
    \E p \in Procs :
        /\ procs[p].pc = "close"
        /\ procs' = [procs EXCEPT ![p] = Finish([@ EXCEPT !.open = @ - 1], procs[p].ret)]
        /\ UNCHANGED <<kind, dbState, grants, jobs, papers, seq, now, last>>

\* The rows the SELECT of a tag edit reads for key: project_num, url, or a
\* paper identifier with id_type 'auto'.
EditRows(tbl, key) ==
    CASE kind = "grants" -> {r \in tbl : r.project_num = key}
      [] kind = "jobs"   -> JobTarget(tbl, 0, key)
      [] kind = "papers" -> PaperTarget(tbl, key, "auto")

\* The table after the UPDATE of a tag edit that adds the tags add.
EditResult(tbl, key, add) ==
    CASE kind = "grants" ->
            tag_grant_result("ready", tbl, key, None, add, None, NULL, FALSE).tbl
      [] kind = "jobs" ->
            update_job_status_result("ready", tbl, 0, key, NULL, None, add, None, NULL,
                                     FALSE).tbl
      [] kind = "papers" ->
            tag_paper_result("ready", tbl, key, "auto", None, add, None, NULL, FALSE).tbl

\* tag_grant, update_job_status or tag_paper is called with add_tags.
CallEdit(Keys, Add) ==
    \E p \in Procs, key \in Keys, add \in Add :
        /\ procs[p].pc = "idle"
        /\ procs' = [procs EXCEPT ![p] =
                IF dbState = "missing"
                THEN Finish([Idle EXCEPT !.fn = "edit", !.queue = <<key>>, !.add = add],
                            RetFalse)
                ELSE [Idle EXCEPT !.fn = "edit", !.pc = "connect", !.queue = <<key>>,
                                  !.add = add]]
        /\ UNCHANGED <<kind, dbState, grants, jobs, papers, seq, now, last>>

\* SELECT tags, notes ... and fetchone(): the edit keeps what it read.
StepSelect(Flts) ==
    \E p \in Procs, fault \in Flts :
        /\ procs[p].pc = "select"
        /\ procs' = [procs EXCEPT ![p] =
                IF fault \/ dbState # "ready" THEN OnError(@)
                ELSE IF EditRows(Tbl, Head(procs[p].queue)) = {}
                THEN [@ EXCEPT !.pc = "close", !.ret = RetFalse]
                ELSE [@ EXCEPT !.pc = "update",
                               !.cur = EditRows(Tbl, Head(procs[p].queue))]]
        /\ UNCHANGED <<kind, dbState, grants, jobs, papers, seq, now, last>>

\* UPDATE ... SET tags = ?: the new tags are computed from the tags the SELECT
\* read, whatever the row holds by now.
StepUpdate(Flts) ==
    \E p \in Procs, fault \in Flts :
        /\ procs[p].pc = "update"
        /\ ~Locked
        /\ LET pr == procs[p]
               key == Head(pr.queue)
               read == CHOOSE c \in pr.cur : TRUE
               asRead == {IF r \in EditRows(Tbl, key)
                          THEN [r EXCEPT !.tags = read.tags, !.notes = read.notes]
                          ELSE r : r \in Tbl}
           IN  procs' = [procs EXCEPT ![p] =
                   IF fault THEN OnError(pr)
                   ELSE [pr EXCEPT !.pc = "commit", !.txnseq = seq,
                                   !.txn = EditResult(asRead, key, pr.add)]]
        /\ UNCHANGED <<kind, dbState, grants, jobs, papers, seq, now, last>>

\* load_grants, load_jobs or load_papers is called.
CallLoad ==
    \E p \in Procs :
        /\ procs[p].pc = "idle"
        /\ procs' = [procs EXCEPT ![p] =
                IF dbState = "missing"
                THEN Finish([Idle EXCEPT !.fn = "load", !.queue = <<NULL>>], "rows")
                ELSE [Idle EXCEPT !.fn = "load", !.pc = "connect", !.queue = <<NULL>>]]
        /\ UNCHANGED <<kind, dbState, grants, jobs, papers, seq, now, last>>

\* pd.read_sql_query of a load: the grants and jobs functions return an empty
\* frame from their handler, load_papers has none.
StepQuery(Flts) ==
    \E p \in Procs, fault \in Flts :
        /\ procs[p].pc = "query"
        /\ procs' = [procs EXCEPT ![p] =
                IF (fault \/ dbState # "ready") /\ kind = "papers" THEN Finish(@, Raised)
                ELSE [@ EXCEPT !.pc = "close", !.ret = "rows"]]
        /\ UNCHANGED <<kind, dbState, grants, jobs, papers, seq, now, last>>

\* Mutant: the rows the interrupted batch had committed are rolled back too.
Recover_BatchWide(tbl, pr) == {r \in tbl : \A rec \in pr.done : ~KeyStored({r}, rec)}

\* What the store holds when a process has died: SQLite rolls back the
\* transaction that was not committed, every committed save stays.
Recover(tbl, pr) == tbl

\* The process dies at any statement of its call.
Crash ==
    \E p \in Procs :
        /\ procs[p].pc \notin {"idle", "done", "crashed"}
        /\ SetTbl(Recover(Tbl, procs[p]))
        /\ procs' = [procs EXCEPT ![p].pc = "crashed", ![p].open = 0, ![p].txn = {}]
        /\ UNCHANGED <<kind, dbState, seq, now, last>>

(***************************************************************************)
(* A batch save that may be interrupted at any statement.                  *)
(***************************************************************************)
KindRecs ==
    CASE kind = "grants" -> StatsGrantRecs
      [] kind = "jobs"   -> StatsJobRecs
      [] kind = "papers" -> StatsPaperRecs

NextCrash ==
    \/ CallSave("batch", KindRecs, {Some(<<TagA>>)}, MaxBatch)
    \/ StepInitConnect({FALSE})
    \/ StepInitCreate({FALSE})
    \/ StepConnect({FALSE})
    \/ StepInsert({FALSE})
    \/ StepCommit
    \/ StepClose
    \/ Crash

SpecCrash == Init /\ [][NextCrash]_vars

\* The whole row a save of rec writes, with the id and the timestamp of r.
WholeRow(rec, tags, r) ==
    CASE kind = "grants" -> grants_row(r.id - 1, rec, tags, NULL, r.added)
      [] kind = "jobs"   -> jobs_row(r.id - 1, rec, tags, NULL, "new", r.added)
      [] kind = "papers" -> papers_row(r.id - 1, rec, tags, NULL, r.added)

\* The record the call of a process is working on.
InProgress(pr) == IF pr.queue = <<>> THEN {} ELSE {Head(pr.queue)}

(***************************************************************************)
(* C24. When the process dies during a batch save, every record whose save *)
(* had returned True is stored, and every stored row is the whole row of   *)
(* such a record or of the record in progress: no partial row, no          *)
(* batch-wide rollback.                                                    *)
(***************************************************************************)
C24_CrashConsistent ==
    \A p \in Procs :
        procs[p].pc = "crashed"
        => /\ \A rec \in procs[p].done : KeyStored(Tbl, rec)
           /\ \A r \in Tbl :
                \E q \in Procs :
                    \E rec \in procs[q].done \cup InProgress(procs[q]) :
                        r = WholeRow(rec, procs[q].tags, r)

\* A batch died after one save had returned True, its next record not stored.
C24_Witness ==
    \E p \in Procs :
        /\ procs[p].pc = "crashed"
        /\ procs[p].done # {}
        /\ procs[p].queue # <<>>
        /\ ~KeyStored(Tbl, Head(procs[p].queue))

(***************************************************************************)
(* Two processes on one store.  An entity is stored while no call is in    *)
(* progress; then each process edits its tags or saves a record whose key  *)
(* nothing else saves.                                                     *)
(***************************************************************************)
Quiet == \A p \in Procs : procs[p].pc = "idle"

ConcKeys ==
    CASE kind = "grants" -> {"G1"}
      [] kind = "jobs"   -> {"U1"}
      [] kind = "papers" -> {"111"}

ConcRecs ==
    CASE kind = "grants" -> {[project_num |-> "G2", title |-> "T1"],
                             [project_num |-> "G2", title |-> "T2"]}
      [] kind = "jobs"   -> {[url |-> "U2", title |-> "T1", company |-> "C1"],
                             [url |-> "U2", title |-> "T2", company |-> "C1"]}
      [] kind = "papers" -> {[pmid |-> "222", arxiv_id |-> ABSENT, title |-> "T1"],
                             [pmid |-> "222", arxiv_id |-> "2301.2", title |-> "T2"]}

NextConc ==
    \/ Quiet /\ save_grant(TagGrantRecs,
                           {None, Some(<<TagA>>)}, {NULL}, {"none"})
    \/ Quiet /\ save_job(TagJobRecs,
                         {None, Some(<<TagA>>)}, {NULL}, {"new"}, {"none"})
    \/ Quiet /\ save_paper(TagPaperRecs,
                           {None, Some(<<TagA>>)}, {NULL}, {"none"})
    \/ CallEdit(ConcKeys, {Some(<<TagB>>), Some(<<TagC>>)})
    \/ CallSave("save", ConcRecs, {None}, 1)
    \/ StepInitConnect({FALSE})
    \/ StepInitCreate({FALSE})
    \/ StepConnect({FALSE})
    \/ StepSelect({FALSE})
    \/ StepUpdate({FALSE})
    \/ StepInsert({FALSE})
    \/ StepCommit
    \/ StepClose

SpecConc == Init /\ [][NextConc]_vars

\* Both processes have returned from a call of fn.
BothDone(fn) == \A p \in Procs : procs[p].pc = "done" /\ procs[p].fn = fn

(***************************************************************************)
(* C25. When two processes each ran a tag edit on the same entity, each    *)
(* adding a different tag, and both returned True, the stored tags of the  *)
(* entity hold both added tags: no update is lost.                         *)
(***************************************************************************)
C25_NoLostUpdate ==
    (BothDone("edit") /\ \A p \in Procs : procs[p].outs = <<RetTrue>>)
    => \A p \in Procs, k \in ConcKeys :
          \A r \in EditRows(Tbl, k) : ToSet(procs[p].add.val) \subseteq ParseTags(r.tags)

(***************************************************************************)
(* C28. When two processes each saved a record with the same natural key   *)
(* into a store that did not hold it, one save returned True, the other    *)
(* False, and one row with that key is stored.                             *)
(***************************************************************************)
C28_ConcurrentDedup ==
    BothDone("save")
    => /\ {procs[p].outs[1] : p \in Procs} = {RetTrue, RetFalse}
       /\ \A rec \in ConcRecs : Cardinality(StoredAs(Tbl, rec)) = 1

(***************************************************************************)
(* Calls whose statements may fail: schema creation, saves, tag edits and  *)
(* loads, with the connections each call has open.                         *)
(***************************************************************************)
NextConn ==
    \/ CallInit
    \/ CallSave("save", ConcRecs, {None}, 1)
    \/ CallEdit(ConcKeys \cup {"222"}, {Some(<<TagB>>)})
    \/ CallLoad
    \/ StepInitConnect(BOOLEAN)
    \/ StepInitCreate(BOOLEAN)
    \/ StepConnect(BOOLEAN)
    \/ StepSelect(BOOLEAN)
    \/ StepUpdate(BOOLEAN)
    \/ StepInsert(BOOLEAN)
    \/ StepQuery(BOOLEAN)
    \/ StepCommit
    \/ StepClose

SpecConn == Init /\ [][NextConn]_vars

(***************************************************************************)
(* C26. A call that has returned or raised has closed every connection it  *)
(* opened, on every path.                                                  *)
(***************************************************************************)
C26_ConnectionsClosed ==
    \A p \in Procs : procs[p].pc = "done" => procs[p].open = 0

\* The range bounds a search of the kind takes: the argument, the column it
\* constrains and the side it bounds.
RangeBounds ==
    CASE kind = "grants" -> {<<"fiscal_year_from", "fiscal_year", "from">>,
                             <<"fiscal_year_to", "fiscal_year", "to">>,
                             <<"award_amount_min", "award_amount", "from">>,
                             <<"award_amount_max", "award_amount", "to">>}
      [] kind = "jobs"   -> {}
      [] kind = "papers" -> {<<"year_from", "year", "from">>, <<"year_to", "year", "to">>}

(***************************************************************************)
(* C27. Every range bound the caller gives a search is applied, a bound of *)
(* 0 included: every returned entity has the bounded column on the right   *)
(* side of the bound.                                                      *)
(***************************************************************************)
C27_ZeroBoundApplied ==
    [][(last'.op = "search" /\ last'.out = "rows")
       => \A b \in RangeBounds :
             last'.f[b[1]].some
             => \A r \in last'.rows :
                   IF b[3] = "from" THEN ColGE(r[b[2]], last'.f[b[1]].val)
                   ELSE ColLE(r[b[2]], last'.f[b[1]].val)]_vars

(***************************************************************************)
(* Papers and their identifiers.                                           *)
(***************************************************************************)
\* get_paper_by_id: None for a missing file or an unknown identifier, the row
\* otherwise; no exception handler.
get_paper_by_id_result(db, tbl, paper_id, id_type, fault) ==
    IF db = "missing" THEN [out |-> Returned, rows |-> {}]
    ELSE IF fault \/ db # "ready" THEN [out |-> Raised, rows |-> {}]
    ELSE IF PaperTarget(tbl, paper_id, id_type) = {} THEN [out |-> Returned, rows |-> {}]
    ELSE [out |-> "row", rows |-> PaperTarget(tbl, paper_id, id_type)]

get_paper_by_id(Ids, Types, Flts) ==
    /\ kind = "papers"
    /\ \E key \in Ids, type \in Types, fault \in Flts :
         LET r == get_paper_by_id_result(dbState, papers, key, type, fault)
         IN  last' = [op |-> "get", key |-> key, type |-> type, fault |-> fault,
                      out |-> r.out, rows |-> r.rows]
    /\ UNCHANGED <<procs, kind, dbState, grants, jobs, papers, seq, now>>

\* An arXiv identifier of the scheme in use before 2007: it holds no dot.
OldArxivId == "hep-th/9901001"

\* The ways a row of a DataFrame holds a paper that has no PMID.
MissingPmid == {ABSENT, NA, "", NAN}

IdRecs ==
    {[pmid |-> m, arxiv_id |-> a, title |-> "T1"] :
        m \in MissingPmid, a \in {"2301.1", "2301.2"}}
    \cup {[pmid |-> "111", arxiv_id |-> OldArxivId, title |-> "T1"],
          [pmid |-> ABSENT, arxiv_id |-> OldArxivId, title |-> "T1"]}

IdArgs == {"111", "2301.1", OldArxivId}

NextPapers ==
    \/ save_paper(IdRecs, {None}, {NULL}, {"none"})
    \/ tag_paper(IdArgs, {"auto"}, {None}, {AddA}, {None}, {NULL}, {FALSE})
    \/ delete_paper(IdArgs, {"auto"}, {FALSE})
    \/ get_paper_by_id(IdArgs, {"auto"}, {FALSE})

SpecPapers == Init /\ [][NextPapers]_vars

(***************************************************************************)
(* C29. A paper without a PMID, however the missing PMID is written, and   *)
(* with an arxiv_id no stored paper has is saved, and its pmid is stored   *)
(* as NULL.                                                                *)
(***************************************************************************)
C29_MissingPmidIsNull ==
    [][(/\ kind = "papers" /\ last'.op = "save"
        /\ last'.fault = "none" /\ last'.out # Raised
        /\ last'.rec.pmid \in MissingPmid
        /\ last'.rec.arxiv_id \notin NoId
        /\ ~ \E r \in papers : r.arxiv_id = last'.rec.arxiv_id)
       => /\ last'.out = RetTrue
          /\ \E r \in papers' : r.arxiv_id = last'.rec.arxiv_id /\ r.pmid = NULL]_vars

(***************************************************************************)
(* C30. get_paper_by_id, tag_paper and delete_paper with id_type 'auto'    *)
(* find a stored paper by its pmid and by its arxiv_id, whatever the       *)
(* identifier string.                                                      *)
(***************************************************************************)
C30_ReachableByEitherId ==
    [][(/\ kind = "papers" /\ last'.op \in {"edit", "delete", "get"}
        /\ last'.type = "auto" /\ ~last'.fault /\ dbState = "ready"
        /\ \E r \in papers : r.pmid = last'.key \/ r.arxiv_id = last'.key)
       => IF last'.op = "get"
          THEN /\ last'.out = "row"
               /\ \A r \in last'.rows : r.pmid = last'.key \/ r.arxiv_id = last'.key
          ELSE last'.out = RetTrue]_vars

====
